---------------------------- MODULE Spec2Model ----------------------------
(***************************************************************************)
(* Connection readiness engine of the SageMaker notebook connector:        *)
(* ServerManager.checkServerStatus, ExecUtils probes, the prerequisite     *)
(* check, and the connect / quick-start workflows that gate the external   *)
(* Remote-SSH connect command on two health checks.                        *)
(*                                                                         *)
(* Text is modelled as a sequence of one-character strings so that         *)
(* String.prototype.includes is a real substring search.                   *)
(***************************************************************************)
EXTENDS Integers, Sequences, FiniteSets, TLC

VARIABLES
    \* external environment
    recordFile,     \* content of sagemaker-local-server-info.json
    listing,        \* what `tasklist /FI "PID eq ..."` prints
    portOut,        \* what Test-NetConnection prints
    scriptFile,     \* sagemaker_connect.ps1
    sshConfigFile,  \* ~/.ssh/config
    knownHosts,     \* ~/.ssh/known_hosts
    extensions,     \* installed Remote-SSH extensions, subset of {"cursor","vscode"}
    envChanges,     \* number of environment changes so far
    \* one workflow attempt
    flow,           \* which entry point runs
    pc,             \* position in the workflow
    checks,         \* result of checkAll
    serverInfo,     \* result of the first checkServerStatus
    finalCheck,     \* result of the final checkServerStatus
    sshHost,        \* configured sshHostAlias
    remoteSSH,      \* result of checkRemoteSSHExtension
    commands,       \* command identifiers returned by getCommands
    connectCommand, \* verb chosen by the resolver
    invoked,        \* log of vscode.commands.executeCommand calls
    shown,          \* messages reported to the user
    outcome,        \* how the attempt ended
    trace,          \* stages of the attempt in the order they were passed
    fixLog,         \* file fixes run: fix, report, file before and after, backup, wrote
    \* one checkServerStatus call
    hpc,            \* position in the call
    info,           \* parsed record
    processRunning, \* local of checkServerStatus
    hret,           \* value returned by the call
    statusCalls,    \* number of checkServerStatus calls started in this attempt
    probeLog,       \* probes executed: call number, kind, argument, output seen, result
    readLog,        \* record-file reads: <<call, what was read>>
    statusLog       \* per call: its result and envChanges at its start and at its return

vars == <<recordFile, listing, portOut, scriptFile, sshConfigFile, knownHosts,
          extensions, envChanges,
          flow, pc, checks, serverInfo, finalCheck, sshHost, remoteSSH,
          commands, connectCommand, invoked, shown, outcome, trace, fixLog,
          hpc, info, processRunning, hret, statusCalls, probeLog, readLog, statusLog>>

envVars == <<recordFile, listing, portOut, scriptFile, sshConfigFile, knownHosts,
             extensions, envChanges>>
flowVars == <<flow, pc, checks, serverInfo, finalCheck, sshHost, remoteSSH,
              commands, connectCommand, invoked, shown, outcome, trace, fixLog>>
callVars == <<hpc, info, processRunning, hret, statusCalls, probeLog, readLog, statusLog>>

---------------------------------------------------------------------------
(* Bounds *)

\* how many times the environment may change during one attempt
MaxEnvChanges == 1

\* how many checkServerStatus calls a repeated status command may start
MaxStatusRuns == 2

\* runs of the fix commands in one behaviour
MaxFixRuns == 2

---------------------------------------------------------------------------
(* Text helpers *)

\* String.prototype.includes
Includes(s, sub) ==
    \E i \in 0..(Len(s) - Len(sub)) : SubSeq(s, i + 1, i + Len(sub)) = sub

DigitChars == <<"0", "1", "2", "3", "4", "5", "6", "7", "8", "9">>

RECURSIVE NumToStr(_)
\* template literal `${n}` of a non-negative integer
NumToStr(n) ==
    IF n < 10 THEN <<DigitChars[n + 1]>>
    ELSE NumToStr(n \div 10) \o <<DigitChars[(n % 10) + 1]>>

WhiteSpace == {" ", "\r", "\n"}

RECURSIVE TrimStart(_)
TrimStart(s) ==
    IF s # <<>> /\ Head(s) \in WhiteSpace THEN TrimStart(Tail(s)) ELSE s

RECURSIVE TrimEnd(_)
TrimEnd(s) ==
    IF s # <<>> /\ s[Len(s)] \in WhiteSpace
    THEN TrimEnd(SubSeq(s, 1, Len(s) - 1)) ELSE s

\* String.prototype.trim
Trim(s) == TrimEnd(TrimStart(s))

InfoNoTasks == <<"I", "N", "F", "O", ":", " ", "N", "o", " ", "t", "a", "s", "k", "s">>
TrueText == <<"T", "r", "u", "e">>
FalseText == <<"F", "a", "l", "s", "e">>

\* String.prototype.indexOf(sub, from), positions counted from 1; 0 when absent
IndexOf(s, sub, from) ==
    LET hits == {i \in from..(Len(s) - Len(sub) + 1) :
                    SubSeq(s, i, i + Len(sub) - 1) = sub}
    IN IF hits = {} THEN 0 ELSE CHOOSE i \in hits : \A j \in hits : i <= j

UpperChars == <<"A", "B", "C", "D", "E", "F", "G", "H", "I", "J", "K", "L", "M",
                "N", "O", "P", "Q", "R", "S", "T", "U", "V", "W", "X", "Y", "Z">>
LowerChars == <<"a", "b", "c", "d", "e", "f", "g", "h", "i", "j", "k", "l", "m",
                "n", "o", "p", "q", "r", "s", "t", "u", "v", "w", "x", "y", "z">>

LowerChar(c) ==
    IF \E i \in 1..26 : UpperChars[i] = c
    THEN LowerChars[CHOOSE i \in 1..26 : UpperChars[i] = c]
    ELSE c

\* what the regular-expression flag i compares
ToLower(s) == [i \in 1..Len(s) |-> LowerChar(s[i])]

\* \s of a regular expression and the line terminators that . does not match
RegexSpace == {" ", "\t", "\r", "\n"}
LineTerminators == {"\r", "\n"}

\* first position at or after p that holds a character of the set cs
FindChar(s, p, cs) ==
    LET hits == {i \in p..Len(s) : s[i] \in cs}
    IN IF hits = {} THEN Len(s) + 1 ELSE CHOOSE i \in hits : \A j \in hits : i <= j

\* first position at or after p that holds a character outside the set cs
SkipWhile(s, p, cs) ==
    LET stops == {i \in p..Len(s) : s[i] \notin cs}
    IN IF stops = {} THEN Len(s) + 1 ELSE CHOOSE i \in stops : \A j \in stops : i <= j

RECURSIVE ReplaceAllText(_, _, _)
\* String.prototype.replace with a global literal pattern
ReplaceAllText(s, a, b) ==
    LET i == IndexOf(s, a, 1)
    IN IF i = 0 THEN s
       ELSE SubSeq(s, 1, i - 1) \o b
            \o ReplaceAllText(SubSeq(s, i + Len(a), Len(s)), a, b)

\* String.prototype.split on a one-character separator; split[i] is the list
\* of the parts of s from position i on
Split(s, sep) ==
    LET split[i \in 1..(Len(s) + 1)] ==
            LET j == FindChar(s, i, {sep}) IN
            IF j > Len(s) THEN <<SubSeq(s, i, Len(s))>>
            ELSE <<SubSeq(s, i, j - 1)>> \o split[j + 1]
    IN split[1]

\* Array.prototype.join
Join(parts, sep) ==
    LET join[i \in 1..Len(parts)] ==
            IF i = Len(parts) THEN parts[i] ELSE parts[i] \o <<sep>> \o join[i + 1]
    IN IF parts = <<>> THEN <<>> ELSE join[1]

\* a match of a regular expression: found, first and last position, groups
NoMatch == [found |-> FALSE, from |-> 0, to |-> 0, groups |-> <<>>]
Match(from, to, groups) == [found |-> TRUE, from |-> from, to |-> to, groups |-> groups]

MatchText(s, m) == SubSeq(s, m.from, m.to)

\* stands for the grave accent character, which cannot be written in a string here
Backquote == "backquote"

GroupDigits == <<"1", "2", "3", "4", "5", "6", "7", "8", "9">>

\* the replacement patterns of String.prototype.replace: $$, $&, $`, $' and $n;
\* expand[i] is the expansion of repl from position i on
ExpandReplacement(repl, s, m) ==
    LET expand[i \in 1..(Len(repl) + 1)] ==
            LET d == FindChar(repl, i, {"$"}) IN
            IF d >= Len(repl) THEN SubSeq(repl, i, Len(repl))
            ELSE LET c == repl[d + 1]
                     literal == SubSeq(repl, i, d - 1)
                 IN IF c = "$" THEN literal \o <<"$">> \o expand[d + 2]
                    ELSE IF c = "&" THEN literal \o MatchText(s, m) \o expand[d + 2]
                    ELSE IF c = Backquote
                    THEN literal \o SubSeq(s, 1, m.from - 1) \o expand[d + 2]
                    ELSE IF c = "'"
                    THEN literal \o SubSeq(s, m.to + 1, Len(s)) \o expand[d + 2]
                    ELSE IF \E n \in 1..Len(m.groups) : GroupDigits[n] = c
                    THEN literal
                         \o m.groups[CHOOSE n \in 1..Len(m.groups) : GroupDigits[n] = c]
                         \o expand[d + 2]
                    ELSE literal \o <<"$">> \o expand[d + 1]
    IN expand[1]

\* String.prototype.replace(regexp, replacement) for the first match m of regexp in s
ReplaceMatch(s, m, repl) ==
    IF ~m.found THEN s
    ELSE SubSeq(s, 1, m.from - 1) \o ExpandReplacement(repl, s, m)
         \o SubSeq(s, m.to + 1, Len(s))

---------------------------------------------------------------------------
(* Environment values *)

\* process ids that occur in records and in the process listing
Pids == {12, 123}
Ports == {80}
\* 0 stands for a pid / port that the record does not have (falsy in JS)
NoNum == 0

ImageNames == {<<"s", "v", "c">>}

\* content of the server record file
RecordFiles ==
    [kind : {"absent", "garbled", "null"}, pid : {NoNum}, port : {NoNum}]
    \cup [kind : {"json"}, pid : Pids \cup {NoNum}, port : Ports \cup {NoNum}]

ListingRow == [image : ImageNames, pid : Pids]
\* what tasklist prints: no row, one row or two rows; ok = FALSE is a rejected exec
Listings ==
    [ok : {TRUE},
     rows : {<<>>} \cup {<<r>> : r \in ListingRow}
            \cup {p \in ListingRow \X ListingRow : p[1] # p[2]}]
    \cup [ok : {FALSE}, rows : {<<>>}]

\* what Test-NetConnection prints; ok = FALSE is a rejected exec
PortOuts ==
    [ok : {TRUE}, out : {TrueText, FalseText, TrueText \o <<"\r", "\n">>}]
    \cup [ok : {FALSE}, out : {<<>>}]

RECURSIVE RenderRows(_)
RenderRows(rows) ==
    IF rows = <<>> THEN <<>>
    ELSE Head(rows).image \o <<" ">> \o NumToStr(Head(rows).pid) \o <<"\n">>
         \o RenderRows(Tail(rows))

\* stdout of the tasklist command for a listing
TasklistStdout(rows) ==
    IF rows = <<>> THEN InfoNoTasks \o <<"\n">> ELSE RenderRows(rows)

---------------------------------------------------------------------------
(* ExecUtils *)

isProcessRunning(pid, lst) ==
    IF ~lst.ok THEN FALSE
    ELSE /\ Includes(TasklistStdout(lst.rows), NumToStr(pid))
         /\ ~Includes(TasklistStdout(lst.rows), InfoNoTasks)

isPortAccessible(port, res) ==
    IF ~res.ok THEN FALSE
    ELSE Includes(res.out, TrueText) \/ Trim(res.out) = TrueText

---------------------------------------------------------------------------
(* Files: SSH config, connection script, known_hosts *)

\* the literals the file checks and fixes search for
HostSagemaker ==
    <<"H", "o", "s", "t", " ", "s", "a", "g", "e", "m", "a", "k", "e", "r">>

HostPrefix ==
    <<"H", "o", "s", "t", " ">>

PercentN ==
    <<"%", "n">>

PercentH ==
    <<"%", "h">>

ServerFilePathVar ==
    <<"S", "A", "G", "E", "M", "A", "K", "E", "R", "_", "L", "O", "C", "A",
      "L", "_", "S", "E", "R", "V", "E", "R", "_", "F", "I", "L", "E", "_",
      "P", "A", "T", "H">>

ProxyCommandWord ==
    <<"P", "r", "o", "x", "y", "C", "o", "m", "m", "a", "n", "d">>

ArnFixMarker ==
    <<"C", "o", "n", "v", "e", "r", "t", " ", "a", "p", "p", " ", "A", "R",
      "N", " ", "t", "o", " ", "s", "p", "a", "c", "e", " ", "A", "R", "N">>

\* the text arnPattern matches before its trailing \s*\n
ArnAssignment ==
    <<"$", "A", "W", "S", "_", "R", "E", "S", "O", "U", "R", "C", "E", "_",
      "A", "R", "N", " ", "=", " ", "$", "m", "a", "t", "c", "h", "e", "s",
      "[", "2", "]", " ", "-", "r", "e", "p", "l", "a", "c", "e", " ", "'",
      "_", ".", "_", "'", ",", " ", "'", ":", "'", " ", "-", "r", "e", "p",
      "l", "a", "c", "e", " ", "'", "_", "_", "'", ",", " ", "'", "/", "'">>

StaleKeyMarker ==
    <<"s", "m", "_", "l", "c", "_", "a", "r", "n">>

\* getServerInfoPath() with APPDATA = C:\A
serverInfoPath ==
    <<"C", ":", "\\", "A", "\\", "C", "u", "r", "s", "o", "r", "\\", "U",
      "s", "e", "r", "\\", "g", "l", "o", "b", "a", "l", "S", "t", "o",
      "r", "a", "g", "e", "\\", "a", "m", "a", "z", "o", "n", "w", "e",
      "b", "s", "e", "r", "v", "i", "c", "e", "s", ".", "a", "w", "s", "-",
      "t", "o", "o", "l", "k", "i", "t", "-", "v", "s", "c", "o", "d", "e",
      "\\", "s", "a", "g", "e", "m", "a", "k", "e", "r", "-", "l", "o",
      "c", "a", "l", "-", "s", "e", "r", "v", "e", "r", "-", "i", "n", "f",
      "o", ".", "j", "s", "o", "n">>

\* the lines fixArnConversion inserts, joined with \n
arnConversionCode ==
    <<"\n", "#", " ", "C", "o", "n", "v", "e", "r", "t", " ", "a", "p",
      "p", " ", "A", "R", "N", " ", "t", "o", " ", "s", "p", "a", "c", "e",
      " ", "A", "R", "N", " ", "i", "f", " ", "n", "e", "e", "d", "e", "d",
      " ", "(", "s", "e", "r", "v", "e", "r", " ", "o", "n", "l", "y", " ",
      "a", "c", "c", "e", "p", "t", "s", " ", "s", "p", "a", "c", "e", " ",
      "A", "R", "N", "s", ")", "\n", "i", "f", " ", "(", "$", "A", "W",
      "S", "_", "R", "E", "S", "O", "U", "R", "C", "E", "_", "A", "R", "N",
      " ", "-", "m", "a", "t", "c", "h", " ", "'", "^", "a", "r", "n", ":",
      "a", "w", "s", ":", "s", "a", "g", "e", "m", "a", "k", "e", "r", ":",
      "(", "[", "^", ":", "]", "+", ")", ":", "(", "\\", "d", "+", ")",
      ":", "a", "p", "p", "/", "(", "[", "^", "/", "]", "+", ")", "/", "(",
      "[", "^", "/", "]", "+", ")", "/", ".", "*", "$", "'", ")", " ", "{",
      "\n", " ", " ", " ", " ", "$", "r", "e", "g", "i", "o", "n", " ",
      "=", " ", "$", "m", "a", "t", "c", "h", "e", "s", "[", "1", "]",
      "\n", " ", " ", " ", " ", "$", "a", "c", "c", "o", "u", "n", "t",
      " ", "=", " ", "$", "m", "a", "t", "c", "h", "e", "s", "[", "2", "]",
      "\n", " ", " ", " ", " ", "$", "d", "o", "m", "a", "i", "n", " ",
      "=", " ", "$", "m", "a", "t", "c", "h", "e", "s", "[", "3", "]",
      "\n", " ", " ", " ", " ", "$", "s", "p", "a", "c", "e", " ", "=",
      " ", "$", "m", "a", "t", "c", "h", "e", "s", "[", "4", "]", "\n",
      " ", " ", " ", " ", "$", "A", "W", "S", "_", "R", "E", "S", "O", "U",
      "R", "C", "E", "_", "A", "R", "N", " ", "=", " ", "\"", "a", "r",
      "n", ":", "a", "w", "s", ":", "s", "a", "g", "e", "m", "a", "k", "e",
      "r", ":", "\"", " ", "+", " ", "$", "r", "e", "g", "i", "o", "n",
      " ", "+", " ", "\"", ":", "\"", " ", "+", " ", "$", "a", "c", "c",
      "o", "u", "n", "t", " ", "+", " ", "\"", ":", "s", "p", "a", "c",
      "e", "/", "\"", " ", "+", " ", "$", "d", "o", "m", "a", "i", "n",
      " ", "+", " ", "\"", "/", "\"", " ", "+", " ", "$", "s", "p", "a",
      "c", "e", "\n", " ", " ", " ", " ", "W", "r", "i", "t", "e", "-",
      "H", "o", "s", "t", " ", "\"", "C", "o", "n", "v", "e", "r", "t",
      "e", "d", " ", "a", "p", "p", " ", "A", "R", "N", " ", "t", "o", " ",
      "s", "p", "a", "c", "e", " ", "A", "R", "N", ":", " ", "$", "A", "W",
      "S", "_", "R", "E", "S", "O", "U", "R", "C", "E", "_", "A", "R", "N",
      "\"", "\n", "}", "\n">>

\* the replacement template of fix 2, around the interpolated serverInfoPath
ProxyCommandPrefix ==
    <<"$", "1", "p", "o", "w", "e", "r", "s", "h", "e", "l", "l", ".", "e",
      "x", "e", " ", "-", "N", "o", "P", "r", "o", "f", "i", "l", "e", " ",
      "-", "C", "o", "m", "m", "a", "n", "d", " ", "\"", "$", "e", "n",
      "v", ":", "S", "A", "G", "E", "M", "A", "K", "E", "R", "_", "L", "O",
      "C", "A", "L", "_", "S", "E", "R", "V", "E", "R", "_", "F", "I", "L",
      "E", "_", "P", "A", "T", "H", "=", "'">>

ProxyCommandSuffix ==
    <<"'", ";", " ", "&", " ", "'", "$", "2", "'", " ", "%", "h", "\"">>

\* a file on disk: absent, unreadable (reads throw), readonly (writes throw),
\* lockedDir (a text file in a directory where no new file can be created) or text
File(kind, text) == [kind |-> kind, text |-> text]
NoFile == File("absent", <<>>)

\* fs.existsSync
existsSync(f) == f.kind # "absent"
\* fs.readFileSync returns / fs.writeFileSync returns
readSucceeds(f) == f.kind \in {"text", "readonly", "lockedDir"}
writeSucceeds(f) == f.kind \in {"text", "absent", "lockedDir"}
\* fs.copyFileSync(path, backupPath) returns
backupSucceeds(f) == f.kind # "lockedDir"

\* `$1${arnConversionCode}`, the replacement handed to String.prototype.replace
arnReplacement == <<"$", "1">> \o arnConversionCode

\* /(\$AWS_RESOURCE_ARN = ... '\/'\s*\n)/ : the assignment, then white space
\* that ends with a newline; the leftmost match, \s* as long as possible
arnPatternMatch(s) ==
    LET NewlineAfter(i) ==
            LET p == i + Len(ArnAssignment)
            IN {k \in p..(SkipWhile(s, p, RegexSpace) - 1) : s[k] = "\n"}
        hits == {i \in 1..(Len(s) - Len(ArnAssignment) + 1) :
                    /\ SubSeq(s, i, i + Len(ArnAssignment) - 1) = ArnAssignment
                    /\ NewlineAfter(i) # {}}
    IN IF hits = {} THEN NoMatch
       ELSE LET i == CHOOSE h \in hits : \A j \in hits : h <= j
                to == CHOOSE k \in NewlineAfter(i) : \A j \in NewlineAfter(i) : j <= k
            IN Match(i, to, <<SubSeq(s, i, to)>>)

\* /Host sagemaker[\s\S]*?(?=Host |$)/i : from the first "Host sagemaker" up to
\* the next "Host " or the end of the text, letter case ignored
hostSectionMatch(s) ==
    LET low == ToLower(s)
        i == IndexOf(low, ToLower(HostSagemaker), 1)
        e == IndexOf(low, ToLower(HostPrefix), i + Len(HostSagemaker))
    IN IF i = 0 THEN NoMatch
       ELSE Match(i, IF e = 0 THEN Len(s) ELSE e - 1, <<>>)

\* /(ProxyCommand\s+)(.+)/ : the word, white space as long as possible, then
\* the rest of the line; the leftmost match
proxyCommandMatch(s) ==
    LET n == Len(ProxyCommandWord)
        \* end of group 1 for the occurrence at i, 0 when there is no match at i
        GroupOneEnd(i) ==
            LET p == i + n
                q == SkipWhile(s, p, RegexSpace)
            IN IF q = p THEN 0
               ELSE IF q <= Len(s) THEN q - 1
               ELSE IF q - p >= 2 /\ s[Len(s)] \notin LineTerminators THEN Len(s) - 1
               ELSE 0
        hits == {i \in 1..(Len(s) - n + 1) :
                    SubSeq(s, i, i + n - 1) = ProxyCommandWord /\ GroupOneEnd(i) # 0}
    IN IF hits = {} THEN NoMatch
       ELSE LET i == CHOOSE h \in hits : \A j \in hits : h <= j
                g == GroupOneEnd(i)
                to == FindChar(s, g + 1, LineTerminators) - 1
            IN Match(i, to, <<SubSeq(s, i, g), SubSeq(s, g + 1, to)>>)

\* what a fix did: its report, the file afterwards, the backup it created
\* (<<>> or one text) and whether it wrote the file
FixOutcome(result, file, backup, wrote) ==
    [result |-> result, file |-> file, backup |-> backup, wrote |-> wrote]

\* fix 1 of fixSshConfig: %n -> %h when the section has %n and no %h
sectionAfterFixOne(hostSection) ==
    IF Includes(hostSection, PercentN) /\ ~Includes(hostSection, PercentH)
    THEN ReplaceAllText(hostSection, PercentN, PercentH)
    ELSE hostSection

\* fix 2 of fixSshConfig: wrap the ProxyCommand when the section lacks the variable
sectionAfterFixTwo(hostSection, fixedSection) ==
    IF ~Includes(hostSection, ServerFilePathVar)
    THEN ReplaceMatch(fixedSection, proxyCommandMatch(fixedSection),
                      ProxyCommandPrefix \o serverInfoPath \o ProxyCommandSuffix)
    ELSE fixedSection

sshNeedsFix(hostSection) ==
    \/ Includes(hostSection, PercentN) /\ ~Includes(hostSection, PercentH)
    \/ ~Includes(hostSection, ServerFilePathVar)

fixSshConfigBackupIgnored(f) ==
    IF ~existsSync(f) THEN FixOutcome("notFound", f, <<>>, FALSE)
    ELSE IF ~readSucceeds(f) THEN FixOutcome("failed", f, <<>>, FALSE)
    ELSE IF ~Includes(f.text, HostSagemaker) THEN FixOutcome("missingHost", f, <<>>, FALSE)
    ELSE IF ~hostSectionMatch(f.text).found THEN FixOutcome("noEntry", f, <<>>, FALSE)
    ELSE LET hostSection == MatchText(f.text, hostSectionMatch(f.text))
             fixedSection == sectionAfterFixTwo(hostSection, sectionAfterFixOne(hostSection))
         IN IF ~sshNeedsFix(hostSection)
            THEN FixOutcome("alreadyCorrect", f, <<>>, FALSE)
            ELSE IF ~writeSucceeds(f)
            THEN FixOutcome("failed", f, <<>>, FALSE)
            ELSE FixOutcome("fixed",
                            File(f.kind, ReplaceMatch(f.text, hostSectionMatch(f.text),
                                                      fixedSection)),
                            IF backupSucceeds(f) THEN <<f.text>> ELSE <<>>, TRUE)

\* fixSshConfig of extension.ts on the SSH config file f
fixSshConfig(f) ==
    IF ~existsSync(f) THEN FixOutcome("notFound", f, <<>>, FALSE)
    ELSE IF ~readSucceeds(f) THEN FixOutcome("failed", f, <<>>, FALSE)
    ELSE IF ~Includes(f.text, HostSagemaker) THEN FixOutcome("missingHost", f, <<>>, FALSE)
    ELSE IF ~hostSectionMatch(f.text).found THEN FixOutcome("noEntry", f, <<>>, FALSE)
    ELSE LET hostSection == MatchText(f.text, hostSectionMatch(f.text))
             fixedSection == sectionAfterFixTwo(hostSection, sectionAfterFixOne(hostSection))
         IN IF ~sshNeedsFix(hostSection)
            THEN FixOutcome("alreadyCorrect", f, <<>>, FALSE)
            ELSE IF ~backupSucceeds(f)
            THEN FixOutcome("failed", f, <<>>, FALSE)
            ELSE IF ~writeSucceeds(f)
            THEN FixOutcome("failed", f, <<f.text>>, FALSE)
            ELSE FixOutcome("fixed",
                            File(f.kind, ReplaceMatch(f.text, hostSectionMatch(f.text),
                                                      fixedSection)),
                            <<f.text>>, TRUE)

fixArnConversionNoMarkerCheck(f) ==
    IF ~existsSync(f) THEN FixOutcome("notFound", f, <<>>, FALSE)
    ELSE IF ~readSucceeds(f) THEN FixOutcome("failed", f, <<>>, FALSE)
    ELSE IF ~backupSucceeds(f) THEN FixOutcome("failed", f, <<>>, FALSE)
    ELSE IF ~arnPatternMatch(f.text).found
    THEN FixOutcome("noInsertionPoint", f, <<f.text>>, FALSE)
    ELSE IF ~writeSucceeds(f) THEN FixOutcome("failed", f, <<f.text>>, FALSE)
    ELSE FixOutcome("applied",
                    File(f.kind, ReplaceMatch(f.text, arnPatternMatch(f.text),
                                              arnReplacement)),
                    <<f.text>>, TRUE)

\* FixService.fixArnConversion on the connection script f
fixArnConversion(f) ==
    IF ~existsSync(f) THEN FixOutcome("notFound", f, <<>>, FALSE)
    ELSE IF ~readSucceeds(f) THEN FixOutcome("failed", f, <<>>, FALSE)
    ELSE IF Includes(f.text, ArnFixMarker) THEN FixOutcome("alreadyApplied", f, <<>>, FALSE)
    ELSE IF ~backupSucceeds(f) THEN FixOutcome("failed", f, <<>>, FALSE)
    ELSE IF ~arnPatternMatch(f.text).found
    THEN FixOutcome("noInsertionPoint", f, <<f.text>>, FALSE)
    ELSE IF ~writeSucceeds(f) THEN FixOutcome("failed", f, <<f.text>>, FALSE)
    ELSE FixOutcome("applied",
                    File(f.kind, ReplaceMatch(f.text, arnPatternMatch(f.text),
                                              arnReplacement)),
                    <<f.text>>, TRUE)

\* step 3 of quick start on the known_hosts file f: drop the lines that
\* contain sm_lc_arn (it creates no backup)
purgeHostKeys(f) ==
    IF ~existsSync(f) THEN FixOutcome("noFile", f, <<>>, FALSE)
    ELSE IF ~readSucceeds(f) THEN FixOutcome("failed", f, <<>>, FALSE)
    ELSE LET lines == Split(f.text, "\n")
             Fresh(line) == ~Includes(line, StaleKeyMarker)
             filtered == SelectSeq(lines, Fresh)
         IN IF Len(filtered) >= Len(lines) THEN FixOutcome("nothingStale", f, <<>>, FALSE)
            ELSE IF ~writeSucceeds(f) THEN FixOutcome("failed", f, <<>>, FALSE)
            ELSE FixOutcome("removed", File("text", Join(filtered, "\n")), <<>>, TRUE)

\* PrerequisitesChecker.checkSSHConfig: existsSync, then an unguarded readFileSync
checkSSHConfigThrows(f) == existsSync(f) /\ ~readSucceeds(f)
checkSSHConfig(f) == existsSync(f) /\ readSucceeds(f) /\ Includes(f.text, HostSagemaker)

\* ServerManager.connectionScriptExists
connectionScriptExists(f) == existsSync(f)

\* SSH config texts: a block whose ProxyCommand uses %n
ConfigPercentN ==
    <<"H", "o", "s", "t", " ", "s", "a", "g", "e", "m", "a", "k", "e", "r",
      "\n", " ", " ", "P", "r", "o", "x", "y", "C", "o", "m", "m", "a",
      "n", "d", " ", "p", ".", "p", "s", "1", " ", "%", "n", "\n">>

\* a block that lacks the variable, followed by another host
ConfigTwoBlocks ==
    <<"H", "o", "s", "t", " ", "s", "a", "g", "e", "m", "a", "k", "e", "r",
      "\n", " ", " ", "P", "r", "o", "x", "y", "C", "o", "m", "m", "a",
      "n", "d", " ", "p", ".", "p", "s", "1", " ", "%", "h", "\n", "H",
      "o", "s", "t", " ", "o", "t", "h", "e", "r", "\n", " ", " ", "U",
      "s", "e", "r", " ", "u", "\n">>

\* a block without a ProxyCommand line
ConfigNoProxy ==
    <<"H", "o", "s", "t", " ", "s", "a", "g", "e", "m", "a", "k", "e", "r",
      "\n", " ", " ", "H", "o", "s", "t", "N", "a", "m", "e", " ", "h",
      "\n">>

\* a block of another alias that begins with the same letters, before the target block
ConfigPrefixAlias ==
    <<"H", "o", "s", "t", " ", "s", "a", "g", "e", "m", "a", "k", "e", "r",
      "-", "d", "e", "v", "\n", " ", " ", "P", "r", "o", "x", "y", "C",
      "o", "m", "m", "a", "n", "d", " ", "p", ".", "p", "s", "1", " ", "%",
      "n", "\n", "H", "o", "s", "t", " ", "s", "a", "g", "e", "m", "a",
      "k", "e", "r", "\n", " ", " ", "P", "r", "o", "x", "y", "C", "o",
      "m", "m", "a", "n", "d", " ", "p", ".", "p", "s", "1", " ", "%", "h",
      "\n">>

\* a block whose alias differs in letter case, before the target block
ConfigMixedCase ==
    <<"H", "o", "s", "t", " ", "S", "a", "g", "e", "M", "a", "k", "e", "r",
      "\n", " ", " ", "P", "r", "o", "x", "y", "C", "o", "m", "m", "a",
      "n", "d", " ", "p", ".", "p", "s", "1", " ", "%", "n", "\n", "H",
      "o", "s", "t", " ", "s", "a", "g", "e", "m", "a", "k", "e", "r",
      "\n", " ", " ", "P", "r", "o", "x", "y", "C", "o", "m", "m", "a",
      "n", "d", " ", "p", ".", "p", "s", "1", " ", "%", "n", "\n">>

\* the target block with the keyword in lower case
ConfigLowerKeyword ==
    <<"h", "o", "s", "t", " ", "s", "a", "g", "e", "m", "a", "k", "e", "r",
      "\n", " ", " ", "P", "r", "o", "x", "y", "C", "o", "m", "m", "a",
      "n", "d", " ", "p", ".", "p", "s", "1", " ", "%", "n", "\n">>

\* a target block that has %h on one line and %n in the proxy invocation
ConfigBothTokens ==
    <<"H", "o", "s", "t", " ", "s", "a", "g", "e", "m", "a", "k", "e", "r",
      "\n", " ", " ", "H", "o", "s", "t", "N", "a", "m", "e", " ", "%",
      "h", "\n", " ", " ", "P", "r", "o", "x", "y", "C", "o", "m", "m",
      "a", "n", "d", " ", "p", ".", "p", "s", "1", " ", "%", "n", "\n">>

\* the target block between two other hosts
ConfigBetween ==
    <<"H", "o", "s", "t", " ", "o", "t", "h", "e", "r", "\n", " ", " ",
      "U", "s", "e", "r", " ", "u", "\n", "H", "o", "s", "t", " ", "s",
      "a", "g", "e", "m", "a", "k", "e", "r", "\n", " ", " ", "U", "s",
      "e", "r", " ", "s", "\n", " ", " ", "P", "r", "o", "x", "y", "C",
      "o", "m", "m", "a", "n", "d", " ", "p", ".", "p", "s", "1", " ", "%",
      "n", "\n", "H", "o", "s", "t", " ", "l", "a", "s", "t", "\n", " ",
      " ", "U", "s", "e", "r", " ", "v", "\n">>

\* no sagemaker block
ConfigOtherHost ==
    <<"H", "o", "s", "t", " ", "o", "t", "h", "e", "r", "\n", " ", " ",
      "U", "s", "e", "r", " ", "u", "\n">>

\* the block another writer appends
OtherWriterBlock ==
    <<"H", "o", "s", "t", " ", "a", "d", "d", "e", "d", "\n", " ", " ",
      "U", "s", "e", "r", " ", "w", "\n">>

\* connection scripts: with the ARN assignment, unfixed
ScriptPlain ==
    <<"p", "a", "r", "a", "m", "(", "$", "h", ")", "\n", "$", "A", "W",
      "S", "_", "R", "E", "S", "O", "U", "R", "C", "E", "_", "A", "R", "N",
      " ", "=", " ", "$", "m", "a", "t", "c", "h", "e", "s", "[", "2", "]",
      " ", "-", "r", "e", "p", "l", "a", "c", "e", " ", "'", "_", ".", "_",
      "'", ",", " ", "'", ":", "'", " ", "-", "r", "e", "p", "l", "a", "c",
      "e", " ", "'", "_", "_", "'", ",", " ", "'", "/", "'", "\n", "a",
      "w", "s", " ", "s", "s", "m", " ", "s", "t", "a", "r", "t", "-", "s",
      "e", "s", "s", "i", "o", "n", "\n">>

\* without the ARN assignment
ScriptOtherFormat ==
    <<"a", "w", "s", " ", "s", "s", "m", " ", "s", "t", "a", "r", "t", "-",
      "s", "e", "s", "s", "i", "o", "n", "\n">>

\* already carrying the fix marker
ScriptFixed ==
    <<"#", " ", "C", "o", "n", "v", "e", "r", "t", " ", "a", "p", "p", " ",
      "A", "R", "N", " ", "t", "o", " ", "s", "p", "a", "c", "e", " ", "A",
      "R", "N", "\n", "a", "w", "s", " ", "s", "s", "m", " ", "s", "t",
      "a", "r", "t", "-", "s", "e", "s", "s", "i", "o", "n", "\n">>

\* known_hosts texts: with and without a stale entry
HostsWithStale ==
    <<"s", "m", "_", "l", "c", "_", "a", "r", "n", "_", "x", " ", "s", "s",
      "h", "-", "r", "s", "a", " ", "A", "\n", "g", "i", "t", "h", "u",
      "b", ".", "c", "o", "m", " ", "s", "s", "h", "-", "r", "s", "a", " ",
      "B", "\n">>

HostsClean ==
    <<"g", "i", "t", "h", "u", "b", ".", "c", "o", "m", " ", "s", "s", "h",
      "-", "r", "s", "a", " ", "B", "\n">>

---------------------------------------------------------------------------
(* Hostname codec and SSH host setup *)

\* the pieces of the template literal of generateHostname
HostnamePrefix ==
    <<"s", "m", "_", "l", "c", "_", "a", "r", "n", "_", ".", "_", "a", "w",
      "s", "_", ".", "_", "s", "a", "g", "e", "m", "a", "k", "e", "r", "_",
      ".", "_">>

RegionAccountJoin ==
    <<".", "_">>

SpaceInfix ==
    <<"_", ".", "_", "s", "p", "a", "c", "e", "_", "_">>

DomainSpaceJoin ==
    <<"_", "_">>

\* what a template literal prints for undefined
UndefinedText ==
    <<"u", "n", "d", "e", "f", "i", "n", "e", "d">>

\* the result of a conversion: it threw, or it returned text
ConversionThrew == [threw |-> TRUE, text |-> <<>>]
Converted(text) == [threw |-> FALSE, text |-> text]

\* array[k] of JavaScript for the 1-based position k, printed in a template literal
ElementText(array, k) == IF k <= Len(array) THEN array[k] ELSE UndefinedText

generateHostnameKeepingType(arn) ==
    LET parts == Split(arn, ":") IN
    IF Len(parts) < 6 THEN ConversionThrew
    ELSE LET resourceParts == Split(parts[6], "/")
         IN Converted(HostnamePrefix \o parts[4] \o RegionAccountJoin \o parts[5]
                      \o <<"_", ".", "_">> \o ElementText(resourceParts, 1)
                      \o DomainSpaceJoin \o ElementText(resourceParts, 2)
                      \o DomainSpaceJoin \o ElementText(resourceParts, 3))

\* HostnameGenerator.generateHostname: parts[5].split throws when the ARN has
\* fewer than six segments
generateHostname(arn) ==
    LET parts == Split(arn, ":") IN
    IF Len(parts) < 6 THEN ConversionThrew
    ELSE LET resourceParts == Split(parts[6], "/")
             region == parts[4]
             account == parts[5]
             domain == ElementText(resourceParts, 2)
             spaceName == ElementText(resourceParts, 3)
         IN Converted(HostnamePrefix \o region \o RegionAccountJoin \o account
                      \o SpaceInfix \o domain \o DomainSpaceJoin \o spaceName)

\* the pieces of the PowerShell lines fixArnConversion inserts
ArnSagemakerPrefix ==
    <<"a", "r", "n", ":", "a", "w", "s", ":", "s", "a", "g", "e", "m", "a",
      "k", "e", "r", ":">>

AppType ==
    <<"a", "p", "p">>

SpacePathPrefix ==
    <<":", "s", "p", "a", "c", "e", "/">>

\* if ($AWS_RESOURCE_ARN -match '^arn:aws:sagemaker:([^:]+):(\d+):app/([^/]+)/([^/]+)/.*$')
\* (-match ignores letter case), then the ARN rebuilt from the four groups
normalizeToSpace(arn) ==
    LET parts == Split(arn, ":")
        rest == Join(SubSeq(parts, 6, Len(parts)), ":")
        path == Split(rest, "/")
        matches ==
            /\ Len(parts) >= 6
            /\ ToLower(Join(SubSeq(parts, 1, 3), ":") \o <<":">>) = ArnSagemakerPrefix
            /\ parts[4] # <<>>
            /\ parts[5] # <<>>
            /\ \A i \in 1..Len(parts[5]) : \E n \in 1..10 : DigitChars[n] = parts[5][i]
            /\ Len(path) >= 4
            /\ ToLower(path[1]) = AppType
            /\ path[2] # <<>>
            /\ path[3] # <<>>
            /\ \A i \in 1..Len(arn) : arn[i] \notin LineTerminators
    IN IF ~matches THEN arn
       ELSE ArnSagemakerPrefix \o parts[4] \o <<":">> \o parts[5] \o SpacePathPrefix
            \o path[2] \o <<"/">> \o path[3]

\* ARNs built from their fields
SpaceArn(r, a, dm, sp) ==
    ArnSagemakerPrefix \o r \o <<":">> \o a \o SpacePathPrefix \o dm \o <<"/">> \o sp

AppArn(r, a, dm, sp, tail) ==
    ArnSagemakerPrefix \o r \o <<":">> \o a \o <<":">> \o AppType \o <<"/">> \o dm
    \o <<"/">> \o sp \o <<"/">> \o tail

\* the ARN of the placeholder text of the input box and its fields
ExampleRegion ==
    <<"u", "s", "-", "e", "a", "s", "t", "-", "1">>

ExampleAccount ==
    <<"1", "2", "3", "4", "5", "6", "7", "8", "9", "0", "1", "2">>

ExampleDomain ==
    <<"d", "-", "a", "b", "c">>

ExampleSpace ==
    <<"m", "y", "-", "s", "p", "a", "c", "e">>

ExampleAppTail ==
    <<"J", "u", "p", "y", "t", "e", "r", "L", "a", "b", "/", "d", "e", "f",
      "a", "u", "l", "t">>

ArnRegions == {ExampleRegion, <<"r">>}
ArnAccounts == {ExampleAccount, <<"7">>}
ArnDomains == {ExampleDomain, <<"d">>}
ArnSpaces == {ExampleSpace}
ArnAppTails == {ExampleAppTail, <<"k">>}

WellFormedSpaceArns ==
    {SpaceArn(r, a, dm, sp) : r \in ArnRegions, a \in ArnAccounts,
                              dm \in ArnDomains, sp \in ArnSpaces}

WellFormedAppArns ==
    {AppArn(r, a, dm, sp, t) : r \in {ExampleRegion}, a \in ArnAccounts,
                               dm \in {ExampleDomain}, sp \in ArnSpaces,
                               t \in ArnAppTails}

\* malformed: five segments; no path; a domain but no space name
ArnFiveSegments ==
    <<"a", "r", "n", ":", "a", "w", "s", ":", "s", "a", "g", "e", "m", "a",
      "k", "e", "r", ":", "r", ":", "7">>

ArnNoPath ==
    <<"a", "r", "n", ":", "a", "w", "s", ":", "s", "a", "g", "e", "m", "a",
      "k", "e", "r", ":", "r", ":", "7", ":", "s", "p", "a", "c", "e">>

ArnNoSpaceName ==
    <<"a", "r", "n", ":", "a", "w", "s", ":", "s", "a", "g", "e", "m", "a",
      "k", "e", "r", ":", "r", ":", "7", ":", "s", "p", "a", "c", "e", "/",
      "d">>

MalformedArns == {ArnFiveSegments, ArnNoPath, ArnNoSpaceName}

ArnInputs == WellFormedSpaceArns \cup WellFormedAppArns \cup MalformedArns

\* path.join(APPDATA, "Cursor", ..., "sagemaker_connect.ps1")
connectScriptPath ==
    <<"C", ":", "\\", "A", "\\", "C", "u", "r", "s", "o", "r", "\\", "U",
      "s", "e", "r", "\\", "g", "l", "o", "b", "a", "l", "S", "t", "o",
      "r", "a", "g", "e", "\\", "a", "m", "a", "z", "o", "n", "w", "e",
      "b", "s", "e", "r", "v", "i", "c", "e", "s", ".", "a", "w", "s", "-",
      "t", "o", "o", "l", "k", "i", "t", "-", "v", "s", "c", "o", "d", "e",
      "\\", "s", "a", "g", "e", "m", "a", "k", "e", "r", "_", "c", "o",
      "n", "n", "e", "c", "t", ".", "p", "s", "1">>

\* the template literal sshEntry of setupSSHConfig
SshEntryHead ==
    <<"H", "o", "s", "t", " ", "s", "a", "g", "e", "m", "a", "k", "e", "r",
      "\n", " ", " ", " ", " ", "H", "o", "s", "t", "N", "a", "m", "e",
      " ">>

SshEntryOptions ==
    <<"\n", " ", " ", " ", " ", "U", "s", "e", "r", " ", "s", "a", "g",
      "e", "m", "a", "k", "e", "r", "-", "u", "s", "e", "r", "\n", " ",
      " ", " ", " ", "F", "o", "r", "w", "a", "r", "d", "A", "g", "e", "n",
      "t", " ", "y", "e", "s", "\n", " ", " ", " ", " ", "A", "d", "d",
      "K", "e", "y", "s", "T", "o", "A", "g", "e", "n", "t", " ", "y", "e",
      "s", "\n", " ", " ", " ", " ", "S", "t", "r", "i", "c", "t", "H",
      "o", "s", "t", "K", "e", "y", "C", "h", "e", "c", "k", "i", "n", "g",
      " ", "a", "c", "c", "e", "p", "t", "-", "n", "e", "w", "\n", " ",
      " ", " ", " ", "P", "r", "o", "x", "y", "C", "o", "m", "m", "a", "n",
      "d", " ", "p", "o", "w", "e", "r", "s", "h", "e", "l", "l", ".", "e",
      "x", "e", " ", "-", "N", "o", "P", "r", "o", "f", "i", "l", "e", " ",
      "-", "C", "o", "m", "m", "a", "n", "d", " ", "\"", "$", "e", "n",
      "v", ":", "S", "A", "G", "E", "M", "A", "K", "E", "R", "_", "L", "O",
      "C", "A", "L", "_", "S", "E", "R", "V", "E", "R", "_", "F", "I", "L",
      "E", "_", "P", "A", "T", "H", "=", "'">>

SshEntryInvoke ==
    <<"'", ";", " ", "&", " ", "'">>

SshEntryTail ==
    <<"'", " ", "%", "h", "\"", "\n">>

sshEntry(hostname) ==
    SshEntryHead \o hostname \o SshEntryOptions \o serverInfoPath \o SshEntryInvoke
    \o connectScriptPath \o SshEntryTail

\* the input box closed without a value
NoArn == <<>>

\* what a setup run did: its report, the file afterwards, whether it wrote
SetupOutcome(result, file, wrote) == [result |-> result, file |-> file, wrote |-> wrote]

\* setupSSHConfig of extension.ts on the SSH config file f with the ARN typed
\* into the input box
setupSSHConfig(f, spaceArn) ==
    IF existsSync(f) /\ ~readSucceeds(f) THEN SetupOutcome("failed", f, FALSE)
    ELSE LET configContent == IF existsSync(f) THEN f.text ELSE <<>> IN
         IF Includes(configContent, HostSagemaker)
         THEN SetupOutcome("alreadyPresent", f, FALSE)
         ELSE IF spaceArn = NoArn THEN SetupOutcome("arnRequired", f, FALSE)
         ELSE IF generateHostname(spaceArn).threw THEN SetupOutcome("failed", f, FALSE)
         ELSE IF ~writeSucceeds(f) THEN SetupOutcome("failed", f, FALSE)
         ELSE SetupOutcome("written",
                           File(IF existsSync(f) THEN f.kind ELSE "text",
                                configContent \o sshEntry(generateHostname(spaceArn).text)),
                           TRUE)

\* setupSSHConfig from its prompt on: configContent is the text read before
\* the prompt, f the file when fs.writeFileSync runs
setupSSHConfigResume(configContent, f, spaceArn) ==
    IF spaceArn = NoArn THEN SetupOutcome("arnRequired", f, FALSE)
    ELSE IF generateHostname(spaceArn).threw THEN SetupOutcome("failed", f, FALSE)
    ELSE IF ~writeSucceeds(f) THEN SetupOutcome("failed", f, FALSE)
    ELSE SetupOutcome("written",
                      File(IF existsSync(f) THEN f.kind ELSE "text",
                           configContent \o sshEntry(generateHostname(spaceArn).text)),
                      TRUE)

---------------------------------------------------------------------------
(* ServerManager.checkServerStatus *)

Undefined == "undefined"
NoError == "none"
ErrNotFound == "Server info file not found"
ErrProcess == "Process not running"
ErrPort == "Server not accessible on port"
ErrParse == "parse error"
ErrEnoent == "ENOENT: no such file or directory"

\* JS truthiness of the optional boolean field `accessible`
Truthy(b) == b = "true"
BoolStr(b) == IF b THEN "true" ELSE "false"

statusErrorSwapped(procRunning, serverAccessible) ==
    IF ~serverAccessible THEN ErrPort
    ELSE IF ~procRunning THEN ErrProcess
    ELSE NoError

statusError(procRunning, serverAccessible) ==
    IF ~procRunning THEN ErrProcess
    ELSE IF ~serverAccessible THEN ErrPort
    ELSE NoError

statusRunningOptimistic(procRunning, serverAccessible) ==
    procRunning \/ serverAccessible

statusRunning(procRunning, serverAccessible) ==
    procRunning /\ serverAccessible

statusResult(rec, procRunning, serverAccessible) ==
    [running |-> statusRunning(procRunning, serverAccessible),
     pid |-> rec.pid, port |-> rec.port,
     accessible |-> BoolStr(serverAccessible),
     error |-> statusError(procRunning, serverAccessible)]

statusFailure(msg) ==
    [running |-> FALSE, pid |-> NoNum, port |-> NoNum,
     accessible |-> Undefined, error |-> msg]

\* value of serverInfo / finalCheck before the call that sets it
NoStatus == statusFailure("unset")

readServerInfoNoExistsCheck ==
    /\ hpc = "read"
    /\ readLog' = Append(readLog, <<statusCalls, recordFile>>)
    /\ IF recordFile.kind = "absent"
       THEN /\ hret' = statusFailure(ErrEnoent)
            /\ hpc' = "ret"
            /\ UNCHANGED info
       ELSE IF recordFile.kind \in {"garbled", "null"}
       THEN /\ hret' = statusFailure(ErrParse)
            /\ hpc' = "ret"
            /\ UNCHANGED info
       ELSE /\ info' = recordFile
            /\ hpc' = "proc"
            /\ UNCHANGED hret
    /\ UNCHANGED <<processRunning, statusCalls, statusLog, probeLog>>
    /\ UNCHANGED <<envVars, flowVars>>

\* existsSync + readFileSync + JSON.parse + property reads, no suspension in between
readServerInfo ==
    /\ hpc = "read"
    /\ readLog' = Append(readLog, <<statusCalls, recordFile>>)
    /\ IF recordFile.kind = "absent"
       THEN /\ hret' = statusFailure(ErrNotFound)
            /\ hpc' = "ret"
            /\ UNCHANGED info
       ELSE IF recordFile.kind \in {"garbled", "null"}
       THEN /\ hret' = statusFailure(ErrParse)
            /\ hpc' = "ret"
            /\ UNCHANGED info
       ELSE /\ info' = recordFile
            /\ hpc' = "proc"
            /\ UNCHANGED hret
    /\ UNCHANGED <<processRunning, statusCalls, statusLog, probeLog>>
    /\ UNCHANGED <<envVars, flowVars>>

\* if (pid) processRunning = await ExecUtils.isProcessRunning(pid)
processProbe ==
    /\ hpc = "proc"
    /\ IF info.pid # NoNum
       THEN /\ processRunning' = isProcessRunning(info.pid, listing)
            /\ probeLog' = Append(probeLog,
                   [call |-> statusCalls, kind |-> "process", arg |-> info.pid,
                    saw |-> listing,
                    result |-> isProcessRunning(info.pid, listing)])
       ELSE /\ processRunning' = FALSE
            /\ UNCHANGED probeLog
    /\ hpc' = "port"
    /\ UNCHANGED <<info, hret, statusCalls, statusLog, readLog>>
    /\ UNCHANGED <<envVars, flowVars>>

portProbeSkippedWhenDead ==
    /\ hpc = "port"
    /\ IF info.port # NoNum /\ processRunning
       THEN /\ hret' = statusResult(info, processRunning,
                                    isPortAccessible(info.port, portOut))
            /\ probeLog' = Append(probeLog,
                   [call |-> statusCalls, kind |-> "port", arg |-> info.port,
                    saw |-> portOut,
                    result |-> isPortAccessible(info.port, portOut)])
       ELSE /\ hret' = statusResult(info, processRunning, FALSE)
            /\ UNCHANGED probeLog
    /\ hpc' = "ret"
    /\ UNCHANGED <<info, processRunning, statusCalls, statusLog, readLog>>
    /\ UNCHANGED <<envVars, flowVars>>

portProbeOncePerSession ==
    /\ hpc = "port"
    /\ IF info.port # NoNum /\ \A i \in 1..Len(probeLog) : probeLog[i].kind # "port"
       THEN /\ hret' = statusResult(info, processRunning,
                                    isPortAccessible(info.port, portOut))
            /\ probeLog' = Append(probeLog,
                   [call |-> statusCalls, kind |-> "port", arg |-> info.port,
                    saw |-> portOut,
                    result |-> isPortAccessible(info.port, portOut)])
       ELSE /\ hret' = statusResult(info, processRunning, FALSE)
            /\ UNCHANGED probeLog
    /\ hpc' = "ret"
    /\ UNCHANGED <<info, processRunning, statusCalls, statusLog, readLog>>
    /\ UNCHANGED <<envVars, flowVars>>

\* if (port) serverAccessible = await ExecUtils.isPortAccessible(port); return {...}
portProbe ==
    /\ hpc = "port"
    /\ IF info.port # NoNum
       THEN /\ hret' = statusResult(info, processRunning,
                                    isPortAccessible(info.port, portOut))
            /\ probeLog' = Append(probeLog,
                   [call |-> statusCalls, kind |-> "port", arg |-> info.port,
                    saw |-> portOut,
                    result |-> isPortAccessible(info.port, portOut)])
       ELSE /\ hret' = statusResult(info, processRunning, FALSE)
            /\ UNCHANGED probeLog
    /\ hpc' = "ret"
    /\ UNCHANGED <<info, processRunning, statusCalls, statusLog, readLog>>
    /\ UNCHANGED <<envVars, flowVars>>

\* the caller starts a checkServerStatus call
CallStatus ==
    /\ hpc = "idle"
    /\ hpc' = "read"
    /\ statusCalls' = statusCalls + 1
    /\ statusLog' = Append(statusLog, [result |-> NoStatus, returned |-> FALSE,
                                       from |-> envChanges, to |-> envChanges])
    /\ UNCHANGED <<info, processRunning, hret, probeLog, readLog>>

\* the caller resumes with the value the call returned
ReturnStatus ==
    /\ hpc = "ret"
    /\ hpc' = "idle"
    /\ statusLog' = [statusLog EXCEPT ![statusCalls] =
                        [result |-> hret, returned |-> TRUE, from |-> @.from,
                         to |-> envChanges]]
    /\ UNCHANGED <<info, processRunning, hret, statusCalls, probeLog, readLog>>

(* PrerequisitesChecker *)

checkRemoteSSHExtension(exts) ==
    IF "cursor" \in exts THEN [installed |-> TRUE, type |-> "cursor"]
    ELSE IF "vscode" \in exts THEN [installed |-> TRUE, type |-> "vscode"]
    ELSE [installed |-> FALSE, type |-> "none"]

checkAllErrors(awsCli, plugin) ==
    (IF ~awsCli THEN <<"AWS CLI not found">> ELSE <<>>)
    \o (IF ~plugin THEN <<"Session Manager Plugin not found">> ELSE <<>>)

checkAllToolkitRequired(awsCli, plugin, exts, sshConfig, toolkit) ==
    [allPassed |-> /\ Len(checkAllErrors(awsCli, plugin)) = 0
                   /\ checkRemoteSSHExtension(exts).installed
                   /\ sshConfig
                   /\ toolkit,
     awsCli |-> awsCli,
     sessionManagerPlugin |-> plugin,
     remoteSSH |-> checkRemoteSSHExtension(exts).installed,
     sshConfig |-> sshConfig,
     awsToolkit |-> toolkit,
     errors |-> checkAllErrors(awsCli, plugin)]

checkAll(awsCli, plugin, exts, sshConfig, toolkit) ==
    [allPassed |-> /\ Len(checkAllErrors(awsCli, plugin)) = 0
                   /\ checkRemoteSSHExtension(exts).installed
                   /\ sshConfig,
     awsCli |-> awsCli,
     sessionManagerPlugin |-> plugin,
     remoteSSH |-> checkRemoteSSHExtension(exts).installed,
     sshConfig |-> sshConfig,
     awsToolkit |-> toolkit,
     errors |-> checkAllErrors(awsCli, plugin)]

NoChecks == checkAll(FALSE, FALSE, {}, FALSE, FALSE)
NoRemoteSSH == checkRemoteSSHExtension({})

---------------------------------------------------------------------------
(* Command identifiers *)

NoCommand == "null"
NoArg == ""

\* verbs that take the host alias as argument
HostVerbs == {"remote-ssh.connectToHost", "remote-ssh.connect",
              "opensshremotes.connectToHost", "opensshremotes.connect"}
\* every verb the workflows use to open a Remote-SSH connection
ConnectVerbs == HostVerbs \cup {"opensshremotes.addNewSshHost", "remote.SSH.connect"}

CursorPreferenceSpecificFirst ==
    <<"opensshremotes.connectToHost", "opensshremotes.connect",
      "remote-ssh.connectToHost", "remote-ssh.connect",
      "opensshremotes.addNewSshHost">>

CursorPreference == <<"remote-ssh.connectToHost", "remote-ssh.connect",
                      "opensshremotes.connectToHost", "opensshremotes.connect",
                      "opensshremotes.addNewSshHost">>
VSCodePreference == <<"remote-ssh.connect", "remote.SSH.connect",
                      "remote-ssh.connectToHost">>

RECURSIVE lastRegistered(_, _)
lastRegistered(prefs, cmds) ==
    IF prefs = <<>> THEN NoCommand
    ELSE IF prefs[Len(prefs)] \in cmds THEN prefs[Len(prefs)]
    ELSE lastRegistered(SubSeq(prefs, 1, Len(prefs) - 1), cmds)

RECURSIVE firstRegistered(_, _)
\* the if / else-if chain over commands.includes(...)
firstRegistered(prefs, cmds) ==
    IF prefs = <<>> THEN NoCommand
    ELSE IF Head(prefs) \in cmds THEN Head(prefs)
    ELSE firstRegistered(Tail(prefs), cmds)

resolveConnectCommand(type, cmds) ==
    IF type = "cursor" THEN firstRegistered(CursorPreference, cmds)
    ELSE firstRegistered(VSCodePreference, cmds)

Call(c, a) == [cmd |-> c, arg |-> a]

ShowCommands == Call("workbench.action.showCommands", NoArg)
OpenToolkit == Call("workbench.view.extension.aws-toolkit", NoArg)
CheckStatusCmd == Call("sagemaker-remote.checkStatus", NoArg)
StartServerCmd == Call("sagemaker-remote.startServer", NoArg)
FixWrapperCmd == Call("sagemaker-remote.fixCodeWrapper", NoArg)
ReloadWindow == Call("workbench.action.reloadWindow", NoArg)
RunSetup == Call("sagemaker-remote.setup", NoArg)

\* values of the sagemakerRemote.sshHostAlias setting
Aliases == {"sagemaker", "devbox"}
NoHost == "unset"

---------------------------------------------------------------------------
(* Workflows *)

\* ConnectionManager.connectToSageMaker, extension.ts connectToSageMaker,
\* QuickStartService.quickStart, StatusService.checkConnectionStatus
ConnectFlows == {"connect", "legacy"}
Flows == ConnectFlows \cup {"quick", "status"}

MsgPrereq == "Prerequisites not met"
MsgInitiating == "Initiating connection..."
MsgStopped == "Server stopped between checks"
MsgManual == "Remote-SSH: Connect to Host"
MsgNoCommand == "Remote-SSH connect command not found"
MsgFailed == "Failed to connect"
MsgQuickDone == "Quick Start Complete!"
MsgQuickInitiated == "Connection initiated!"
MsgQuickFailed == "Failed to auto-connect"
MsgQuickStartFailed == "Quick start failed"
MsgStatusError == "Error"
MsgArnVerified == "ARN conversion verified/fixed"
MsgScriptNotFound == "Connection script not found"
MsgCleanupFailed == "Host key cleanup"
MsgAllFixesApplied == "All fixes applied"
MsgAlreadyRunning == "Local server is already running"
MsgStarted == "Local server started successfully!"
MsgNotStarted == "Server did not start automatically"
MsgCancelled == "Cancelled by user"

\* the attempt ends
Finish(o, msgs, calls) ==
    /\ pc' = "done"
    /\ outcome' = o
    /\ shown' = shown \cup msgs
    /\ invoked' = invoked \o calls

\* the attempt goes on to its next step
Goto(next) ==
    /\ pc' = next
    /\ UNCHANGED <<outcome, shown, invoked>>

\* commands the user's answer to a handler's message can trigger
handleServerNotRunningCalls(f) ==
    IF f = "connect"
    THEN {<<>>, <<StartServerCmd>>, <<CheckStatusCmd>>, <<OpenToolkit>>, <<FixWrapperCmd>>}
    ELSE IF f = "legacy"
    THEN {<<>>, <<StartServerCmd>>, <<CheckStatusCmd>>, <<OpenToolkit>>}
    ELSE {<<>>, <<OpenToolkit>>, <<CheckStatusCmd>>}

handleServerNotAccessibleCalls == {<<>>, <<CheckStatusCmd>>, <<OpenToolkit>>}

handleServerStoppedCalls(f) ==
    IF f \in ConnectFlows THEN {<<>>, <<OpenToolkit>>, <<CheckStatusCmd>>}
    ELSE {<<>>}

handleScriptNotFoundCalls == {<<>>, <<CheckStatusCmd>>}

\* what the caller's catch block reports when an awaited call rejects
catchMessage(f) ==
    IF f \in ConnectFlows THEN MsgFailed
    ELSE IF f = "quick" THEN MsgQuickStartFailed
    ELSE MsgStatusError

checkPrerequisitesContinuing ==
    /\ pc = "start"
    /\ IF checkSSHConfigThrows(sshConfigFile)
       THEN /\ Finish("CheckRaised", {catchMessage(flow)}, <<>>)
            /\ UNCHANGED <<checks, remoteSSH, trace>>
       ELSE /\ \E awsCli \in BOOLEAN, plugin \in BOOLEAN, toolkit \in BOOLEAN :
                  /\ checks' = checkAll(awsCli, plugin, extensions,
                                        checkSSHConfig(sshConfigFile), toolkit)
                  /\ IF flow = "status"
                     THEN remoteSSH' = checkRemoteSSHExtension(extensions)
                     ELSE UNCHANGED remoteSSH
                  /\ Goto(IF flow = "quick" THEN "fixArn" ELSE "check1")
            /\ trace' = Append(trace, "PrereqChecked")
    /\ UNCHANGED <<flow, fixLog, serverInfo, finalCheck, sshHost, commands, connectCommand>>
    /\ UNCHANGED <<envVars, callVars>>

\* const checks = await PrerequisitesChecker.checkAll(); if (!checks.allPassed) return
checkPrerequisites ==
    /\ pc = "start"
    /\ IF checkSSHConfigThrows(sshConfigFile)
       THEN /\ Finish("CheckRaised", {catchMessage(flow)}, <<>>)
            /\ UNCHANGED <<checks, remoteSSH, trace>>
       ELSE /\ \E awsCli \in BOOLEAN, plugin \in BOOLEAN, toolkit \in BOOLEAN :
                  LET c == checkAll(awsCli, plugin, extensions,
                                    checkSSHConfig(sshConfigFile), toolkit) IN
                  /\ checks' = c
                  /\ IF flow = "status"
                     THEN /\ Goto("check1")
                          /\ remoteSSH' = checkRemoteSSHExtension(extensions)
                     ELSE /\ UNCHANGED remoteSSH
                          /\ IF ~c.allPassed
                             THEN Finish("PrerequisiteMissing", {MsgPrereq}, <<>>)
                             ELSE Goto(IF flow = "quick" THEN "fixArn" ELSE "check1")
            /\ trace' = Append(trace, "PrereqChecked")
    /\ UNCHANGED <<flow, fixLog, serverInfo, finalCheck, sshHost, commands, connectCommand>>
    /\ UNCHANGED <<envVars, callVars>>

\* an entry of fixLog
FixRun(fix, before, r) ==
    [fix |-> fix, result |-> r.result, before |-> before, after |-> r.file,
     backup |-> r.backup, wrote |-> r.wrote]

\* quick start step 2: await FixService.fixArnConversion()
quickFixArnConversion ==
    /\ pc = "fixArn"
    /\ pc' = "purge"
    /\ \E r \in {fixArnConversion(scriptFile)} :
          /\ scriptFile' = r.file
          /\ fixLog' = Append(fixLog, FixRun("arn", scriptFile, r))
          /\ shown' = shown \cup {MsgArnVerified}
                            \cup (IF r.result = "notFound" THEN {MsgScriptNotFound} ELSE {})
    /\ trace' = Append(trace, "ArnFixAttempted")
    /\ UNCHANGED <<flow, checks, serverInfo, finalCheck, sshHost, remoteSSH,
                   commands, connectCommand, invoked, outcome>>
    /\ UNCHANGED <<recordFile, listing, portOut, sshConfigFile, knownHosts,
                   extensions, envChanges>>
    /\ UNCHANGED callVars

quickPurgeHostKeysAborting ==
    /\ pc = "purge"
    /\ \E r \in {purgeHostKeys(knownHosts)} :
          /\ knownHosts' = r.file
          /\ fixLog' = Append(fixLog, FixRun("purge", knownHosts, r))
          /\ IF r.result = "failed"
             THEN /\ pc' = "done"
                  /\ outcome' = "QuickStartFailed"
                  /\ shown' = shown \cup {MsgQuickStartFailed}
             ELSE /\ pc' = "check1"
                  /\ UNCHANGED <<outcome, shown>>
    /\ trace' = Append(trace, "HostKeysPurged")
    /\ UNCHANGED <<flow, checks, serverInfo, finalCheck, sshHost, remoteSSH,
                   commands, connectCommand, invoked>>
    /\ UNCHANGED <<recordFile, listing, portOut, scriptFile, sshConfigFile,
                   extensions, envChanges>>
    /\ UNCHANGED callVars

\* quick start step 3: known_hosts cleanup inside its own try / catch
quickPurgeHostKeys ==
    /\ pc = "purge"
    /\ pc' = "check1"
    /\ \E r \in {purgeHostKeys(knownHosts)} :
          /\ knownHosts' = r.file
          /\ fixLog' = Append(fixLog, FixRun("purge", knownHosts, r))
          /\ shown' = shown \cup (IF r.result = "failed" THEN {MsgCleanupFailed} ELSE {})
    /\ trace' = Append(trace, "HostKeysPurged")
    /\ UNCHANGED <<flow, checks, serverInfo, finalCheck, sshHost, remoteSSH,
                   commands, connectCommand, invoked, outcome>>
    /\ UNCHANGED <<recordFile, listing, portOut, scriptFile, sshConfigFile,
                   extensions, envChanges>>
    /\ UNCHANGED callVars

\* const serverInfo = await ServerManager.checkServerStatus()
firstHealthCheck ==
    /\ pc = "check1"
    /\ pc' = "await1"
    /\ CallStatus
    /\ UNCHANGED <<flow, fixLog, checks, serverInfo, finalCheck, sshHost, remoteSSH,
                   commands, connectCommand, invoked, shown, outcome, trace>>
    /\ UNCHANGED envVars

\* checkConnectionStatus prints the result
statusReport ==
    /\ flow = "status"
    /\ pc = "await1"
    /\ ReturnStatus
    /\ serverInfo' = hret
    /\ trace' = Append(trace, "ServerChecked")
    /\ Finish("StatusReported",
              {IF hret.running THEN "Local server is running"
                               ELSE "Local server is not running"}, <<>>)
    /\ UNCHANGED <<flow, fixLog, checks, finalCheck, sshHost, remoteSSH, commands, connectCommand>>
    /\ UNCHANGED envVars

\* the sagemaker-remote.checkStatus command is run again
statusAgain ==
    /\ flow = "status"
    /\ pc = "done"
    /\ statusCalls < MaxStatusRuns
    /\ pc' = "start"
    /\ UNCHANGED <<flow, fixLog, checks, serverInfo, finalCheck, sshHost, remoteSSH,
                   commands, connectCommand, invoked, shown, outcome, trace>>
    /\ UNCHANGED <<envVars, callVars>>

\* if (!serverInfo.running) ...; if (serverInfo.accessible === false || !serverInfo.running) ...
connectAfterFirstCheck ==
    /\ flow \in ConnectFlows
    /\ pc = "await1"
    /\ ReturnStatus
    /\ serverInfo' = hret
    /\ trace' = Append(trace, "ServerChecked")
    /\ IF ~hret.running
       THEN \E calls \in handleServerNotRunningCalls(flow) :
               Finish("ServerNotRunning", {}, calls)
       ELSE IF hret.accessible = "false" \/ ~hret.running
       THEN \E calls \in handleServerNotAccessibleCalls :
               Finish("ServerUnreachable", {}, calls)
       ELSE Goto("check2")
    /\ UNCHANGED <<flow, fixLog, checks, finalCheck, sshHost, remoteSSH, commands, connectCommand>>
    /\ UNCHANGED envVars

\* quick start step 4: if (!serverInfo.running || !serverInfo.accessible) return
quickAfterFirstCheck ==
    /\ flow = "quick"
    /\ pc = "await1"
    /\ ReturnStatus
    /\ serverInfo' = hret
    /\ trace' = Append(trace, "ServerChecked")
    /\ IF ~hret.running \/ ~Truthy(hret.accessible)
       THEN \E calls \in handleServerNotRunningCalls(flow) :
               Finish("ServerNotRunning", {}, calls)
       ELSE Goto("settle")
    /\ UNCHANGED <<flow, fixLog, checks, finalCheck, sshHost, remoteSSH, commands, connectCommand>>
    /\ UNCHANGED envVars

\* quick start step 5: await new Promise((resolve) => setTimeout(resolve, 1000))
quickSettleDelay ==
    /\ pc = "settle"
    /\ pc' = "check2"
    /\ UNCHANGED <<flow, fixLog, checks, serverInfo, finalCheck, sshHost, remoteSSH,
                   commands, connectCommand, invoked, shown, outcome, trace>>
    /\ UNCHANGED <<envVars, callVars>>

finalVerificationCached ==
    /\ pc = "check2"
    /\ pc' = "await2"
    /\ hpc = "idle"
    /\ hpc' = "ret"
    /\ hret' = serverInfo
    /\ UNCHANGED <<info, processRunning, statusCalls, statusLog, probeLog, readLog>>
    /\ UNCHANGED <<flow, fixLog, checks, serverInfo, finalCheck, sshHost, remoteSSH,
                   commands, connectCommand, invoked, shown, outcome, trace>>
    /\ UNCHANGED envVars

\* const finalCheck = await ServerManager.checkServerStatus()
finalVerification ==
    /\ pc = "check2"
    /\ pc' = "await2"
    /\ CallStatus
    /\ UNCHANGED <<flow, fixLog, checks, serverInfo, finalCheck, sshHost, remoteSSH,
                   commands, connectCommand, invoked, shown, outcome, trace>>
    /\ UNCHANGED envVars

finalCheckFailedStrict(fc) == fc.accessible = "false"

\* !finalCheck.running || !finalCheck.accessible
finalCheckFailed(fc) == ~fc.running \/ ~Truthy(fc.accessible)

\* if (!finalCheck.running || !finalCheck.accessible) { handleServerStopped; return }
afterFinalCheck ==
    /\ pc = "await2"
    /\ ReturnStatus
    /\ finalCheck' = hret
    /\ trace' = Append(trace, "FinalVerified")
    /\ IF finalCheckFailed(hret)
       THEN \E calls \in handleServerStoppedCalls(flow) :
               Finish("ServerStoppedBetweenChecks", {MsgStopped}, calls)
       ELSE Goto(IF flow = "quick" THEN "delegate" ELSE "script")
    /\ UNCHANGED <<flow, fixLog, checks, serverInfo, sshHost, remoteSSH, commands, connectCommand>>
    /\ UNCHANGED envVars

\* if (!ServerManager.connectionScriptExists()) return; sshHost = config.get(...);
\* if (!checks.remoteSSH) return
connectScriptCheck ==
    /\ pc = "script"
    /\ trace' = Append(trace, "ScriptChecked")
    /\ IF ~connectionScriptExists(scriptFile)
       THEN /\ \E calls \in handleScriptNotFoundCalls :
                  Finish("ScriptNotFound", {}, calls)
            /\ UNCHANGED sshHost
       ELSE /\ \E h \in Aliases : sshHost' = h
            /\ IF ~checks.remoteSSH
               THEN Finish("RemoteSSHMissing", {"Remote-SSH extension not found"}, <<>>)
               ELSE Goto("detect")
    /\ UNCHANGED <<flow, fixLog, checks, serverInfo, finalCheck, remoteSSH, commands, connectCommand>>
    /\ UNCHANGED <<envVars, callVars>>

\* const remoteSSH = await PrerequisitesChecker.checkRemoteSSHExtension()
connectDetectExtension ==
    /\ pc = "detect"
    /\ pc' = "resolve"
    /\ remoteSSH' = checkRemoteSSHExtension(extensions)
    /\ trace' = Append(trace, "ExtensionDetected")
    /\ UNCHANGED <<flow, fixLog, checks, serverInfo, finalCheck, sshHost, commands,
                   connectCommand, invoked, shown, outcome>>
    /\ UNCHANGED <<envVars, callVars>>

\* handleNoConnectCommand / the `if (!connectCommand)` block of extension.ts
handleNoConnectCommandCalls(f, type) ==
    IF type # "cursor" THEN {<<>>}
    ELSE IF f = "connect" THEN {<<ShowCommands>>}
    ELSE {<<ShowCommands>>, <<ShowCommands, ShowCommands>>, <<ShowCommands, CheckStatusCmd>>}

\* const commands = await vscode.commands.getCommands(); choose connectCommand
resolveVerb ==
    /\ pc = "resolve"
    /\ trace' = Append(trace, "VerbResolved")
    /\ \E cmds \in SUBSET ConnectVerbs :
          LET verb == resolveConnectCommand(remoteSSH.type, cmds) IN
          /\ commands' = cmds
          /\ connectCommand' = verb
          /\ IF verb = NoCommand
             THEN \E calls \in handleNoConnectCommandCalls(flow, remoteSSH.type) :
                     Finish("NoCapabilityResolved",
                            IF remoteSSH.type = "cursor"
                            THEN {MsgNoCommand, MsgManual} ELSE {MsgNoCommand},
                            calls)
             ELSE Goto("invoke")
    /\ UNCHANGED <<flow, fixLog, checks, serverInfo, finalCheck, sshHost, remoteSSH>>
    /\ UNCHANGED <<envVars, callVars>>

\* what handlePickerConnection finds in the SSH config file
PickerConfigStates == {"missing", "nohost", "ok"}

\* one way the invoke step can end
InvokeResult(o, msgs, calls, delegated) ==
    [outcome |-> o, msgs |-> msgs, calls |-> calls, delegated |-> delegated]

\* ConnectionManager.initiateConnection from `try {` on: every way it can end
connectInvokeResults(verb, type, host) ==
    IF verb \in HostVerbs
    THEN {InvokeResult("Delegated", {MsgInitiating}, <<Call(verb, host)>>, TRUE),
          IF type = "cursor"
          THEN InvokeResult("ManualFallback", {MsgManual},
                            <<Call(verb, host), ShowCommands>>, TRUE)
          ELSE InvokeResult("Failed", {MsgFailed}, <<Call(verb, host)>>, TRUE)}
    ELSE IF verb = "opensshremotes.addNewSshHost"
    THEN UNION {IF cfg = "ok"
                THEN {InvokeResult("ManualFallback", {MsgManual}, <<ShowCommands>>, FALSE)}
                ELSE {InvokeResult("ConfigMissing", {"Run Setup command first"}, calls, FALSE) :
                         calls \in {<<>>, <<RunSetup>>}} :
                cfg \in PickerConfigStates}
    ELSE {InvokeResult("Delegated", {MsgInitiating}, <<>>, FALSE)}

\* extension.ts connectToSageMaker from `try {` on: every way it can end
legacyInvokeResults(verb, type, host) ==
    IF verb \in HostVerbs \/ verb # "opensshremotes.addNewSshHost"
    THEN {InvokeResult("Delegated", {MsgInitiating}, <<Call(verb, host)>>, TRUE),
          IF type = "cursor"
          THEN InvokeResult("ManualFallback", {MsgManual},
                            <<Call(verb, host), ShowCommands>>, TRUE)
          ELSE InvokeResult("Failed", {MsgFailed}, <<Call(verb, host)>>, TRUE)}
    ELSE UNION {IF cfg = "ok"
                THEN {InvokeResult("ReloadRequested", {}, <<ReloadWindow>>, FALSE),
                      InvokeResult("ManualFallback", {MsgManual}, <<ShowCommands>>, FALSE)}
                ELSE {InvokeResult("ConfigMissing", {"Run Setup command first"}, calls, FALSE) :
                         calls \in {<<>>, <<RunSetup>>}} :
                cfg \in PickerConfigStates}

\* await this.initiateConnection(outputChannel, sshHost, remoteSSH), invoke step
connectInvoke ==
    /\ flow = "connect"
    /\ pc = "invoke"
    /\ \E r \in connectInvokeResults(connectCommand, remoteSSH.type, sshHost) :
          /\ Finish(r.outcome, r.msgs, r.calls)
          /\ trace' = IF r.delegated THEN Append(trace, "Delegated") ELSE trace
    /\ UNCHANGED <<flow, fixLog, checks, serverInfo, finalCheck, sshHost, remoteSSH,
                   commands, connectCommand>>
    /\ UNCHANGED <<envVars, callVars>>

\* the invoke step of connectToSageMaker of extension.ts
legacyInvoke ==
    /\ flow = "legacy"
    /\ pc = "invoke"
    /\ \E r \in legacyInvokeResults(connectCommand, remoteSSH.type, sshHost) :
          /\ Finish(r.outcome, r.msgs, r.calls)
          /\ trace' = IF r.delegated THEN Append(trace, "Delegated") ELSE trace
    /\ UNCHANGED <<flow, fixLog, checks, serverInfo, finalCheck, sshHost, remoteSSH,
                   commands, connectCommand>>
    /\ UNCHANGED <<envVars, callVars>>

\* quick start step 6: executeCommand("opensshremotes.addNewSshHost", sshHost)
quickDelegate ==
    /\ flow = "quick"
    /\ pc = "delegate"
    /\ trace' = Append(trace, "Delegated")
    /\ \E h \in Aliases, ok \in BOOLEAN :
          /\ sshHost' = h
          /\ invoked' = Append(invoked, Call("opensshremotes.addNewSshHost", h))
          /\ IF ok
             THEN /\ pc' = "done"
                  /\ outcome' = "Delegated"
                  /\ shown' = shown \cup {MsgQuickInitiated, MsgQuickDone}
             ELSE /\ pc' = "fallback"
                  /\ UNCHANGED <<outcome, shown>>
    /\ UNCHANGED <<flow, fixLog, checks, serverInfo, finalCheck, remoteSSH, commands, connectCommand>>
    /\ UNCHANGED <<envVars, callVars>>

\* quick start fallback: executeCommand("remote-ssh.connectToHost", sshHost)
quickFallback ==
    /\ flow = "quick"
    /\ pc = "fallback"
    /\ \E ok \in BOOLEAN :
          IF ok
          THEN Finish("Delegated", {MsgQuickInitiated, MsgQuickDone},
                      <<Call("remote-ssh.connectToHost", sshHost)>>)
          ELSE Finish("DelegationFailed", {MsgQuickFailed, MsgManual, MsgQuickDone},
                      <<Call("remote-ssh.connectToHost", sshHost)>>)
    /\ UNCHANGED <<flow, fixLog, checks, serverInfo, finalCheck, sshHost, remoteSSH,
                   commands, connectCommand, trace>>
    /\ UNCHANGED <<envVars, callVars>>

---------------------------------------------------------------------------
(* ServerStartService.startLocalServer *)

\* const awsCommands = [...]
AwsCommands == <<"aws.sagemaker.connectToNotebookSpace", "aws.sagemaker.openNotebook",
                 "aws.sagemaker.connectToSpace">>

AwsCommandSet == {AwsCommands[i] : i \in 1..Len(AwsCommands)}

triggerCallsNoBreak(cmds) ==
    LET found == SelectSeq(AwsCommands, LAMBDA c : c \in cmds)
    IN [i \in 1..Len(found) |-> Call(found[i], NoArg)]

\* the for loop over awsCommands: the first registered command is executed
\* and the loop ends with break
triggerCalls(cmds) ==
    IF firstRegistered(AwsCommands, cmds) = NoCommand THEN <<>>
    ELSE <<Call(firstRegistered(AwsCommands, cmds), NoArg)>>

\* const serverInfo = await ServerManager.checkServerStatus()
startFirstCheck ==
    /\ flow = "start"
    /\ pc = "start"
    /\ pc' = "await1"
    /\ CallStatus
    /\ UNCHANGED <<flow, fixLog, checks, serverInfo, finalCheck, sshHost, remoteSSH,
                   commands, connectCommand, invoked, shown, outcome, trace>>
    /\ UNCHANGED envVars

\* if (serverInfo.running) { ...already running; return }
startAfterFirstCheck ==
    /\ flow = "start"
    /\ pc = "await1"
    /\ ReturnStatus
    /\ serverInfo' = hret
    /\ trace' = Append(trace, "ServerChecked")
    /\ IF hret.running
       THEN Finish("AlreadyRunning", {MsgAlreadyRunning}, <<>>)
       ELSE Goto("trigger")
    /\ UNCHANGED <<flow, fixLog, checks, finalCheck, sshHost, remoteSSH, commands,
                   connectCommand>>
    /\ UNCHANGED envVars

\* the loop over awsCommands; a rejected executeCommand is logged and ignored
startTrigger ==
    /\ flow = "start"
    /\ pc = "trigger"
    /\ pc' = "settle"
    /\ \E cmds \in SUBSET AwsCommandSet :
          /\ commands' = cmds
          /\ invoked' = invoked \o triggerCalls(cmds)
    /\ trace' = Append(trace, "Triggered")
    /\ UNCHANGED <<flow, fixLog, checks, serverInfo, finalCheck, sshHost, remoteSSH,
                   connectCommand, shown, outcome>>
    /\ UNCHANGED <<envVars, callVars>>

\* await new Promise((resolve) => setTimeout(resolve, 5000))
startSettleDelay ==
    /\ flow = "start"
    /\ pc = "settle"
    /\ pc' = "check2"
    /\ trace' = Append(trace, "Settled")
    /\ UNCHANGED <<flow, fixLog, checks, serverInfo, finalCheck, sshHost, remoteSSH,
                   commands, connectCommand, invoked, shown, outcome>>
    /\ UNCHANGED <<envVars, callVars>>

\* the user's answer to the code wrapper warning, when it is shown
startNotStartedCalls == {<<>>, <<FixWrapperCmd>>, <<CheckStatusCmd>>}

\* const newServerInfo = await ServerManager.checkServerStatus() has returned
startAfterRecheck ==
    /\ flow = "start"
    /\ pc = "await2"
    /\ ReturnStatus
    /\ finalCheck' = hret
    /\ trace' = Append(trace, "Rechecked")
    /\ IF hret.running
       THEN Finish("Started", {MsgStarted}, <<>>)
       ELSE \E calls \in startNotStartedCalls : Finish("NotStarted", {MsgNotStarted}, calls)
    /\ UNCHANGED <<flow, fixLog, checks, serverInfo, sshHost, remoteSSH, commands,
                   connectCommand>>
    /\ UNCHANGED envVars

---------------------------------------------------------------------------
(* Fix commands *)

\* the command sagemaker-remote.fixSshConfig
fixSshConfigCommand ==
    /\ Len(fixLog) < MaxFixRuns
    /\ \E r \in {fixSshConfig(sshConfigFile)} :
          /\ sshConfigFile' = r.file
          /\ fixLog' = Append(fixLog, FixRun("ssh", sshConfigFile, r))
    /\ UNCHANGED <<flow, pc, checks, serverInfo, finalCheck, sshHost, remoteSSH,
                   commands, connectCommand, invoked, shown, outcome, trace>>
    /\ UNCHANGED <<recordFile, listing, portOut, scriptFile, knownHosts,
                   extensions, envChanges>>
    /\ UNCHANGED callVars

\* the command sagemaker-remote.fixArnConversion
fixArnConversionCommand ==
    /\ Len(fixLog) < MaxFixRuns
    /\ \E r \in {fixArnConversion(scriptFile)} :
          /\ scriptFile' = r.file
          /\ fixLog' = Append(fixLog, FixRun("arn", scriptFile, r))
    /\ UNCHANGED <<flow, pc, checks, serverInfo, finalCheck, sshHost, remoteSSH,
                   commands, connectCommand, invoked, shown, outcome, trace>>
    /\ UNCHANGED <<recordFile, listing, portOut, sshConfigFile, knownHosts,
                   extensions, envChanges>>
    /\ UNCHANGED callVars

\* the command sagemaker-remote.applyAllFixes: the user's answer, then
\* fixCodeWrapper (a script run in a terminal, none of the files here),
\* fixArnConversion and fixSshConfig, each awaited, then the report
applyAllFixes ==
    /\ Len(fixLog) + 2 <= MaxFixRuns
    /\ \E answer \in {"Apply All", "Cancel"} :
          IF answer # "Apply All"
          THEN /\ shown' = shown \cup {MsgCancelled}
               /\ UNCHANGED <<scriptFile, sshConfigFile, fixLog>>
          ELSE \E ra \in {fixArnConversion(scriptFile)} :
                 \E rs \in {fixSshConfig(sshConfigFile)} :
                    /\ scriptFile' = ra.file
                    /\ sshConfigFile' = rs.file
                    /\ fixLog' = fixLog \o <<FixRun("arn", scriptFile, ra),
                                             FixRun("ssh", sshConfigFile, rs)>>
                    /\ shown' = shown \cup {MsgAllFixesApplied}
    /\ UNCHANGED <<flow, pc, checks, serverInfo, finalCheck, sshHost, remoteSSH,
                   commands, connectCommand, invoked, outcome, trace>>
    /\ UNCHANGED <<recordFile, listing, portOut, knownHosts, extensions, envChanges>>
    /\ UNCHANGED callVars

\* what fs.writeFileSync(path, content) leaves when the process ends inside
\* it: the file is truncated first and then filled, so a prefix of content
InterruptedWrites(content) ==
    {SubSeq(content, 1, k) : k \in {0, Len(content) \div 2}}

FixInterrupted(fix, before, r, partial) ==
    [fix |-> fix, result |-> "interrupted", before |-> before,
     after |-> File(r.file.kind, partial), backup |-> r.backup, wrote |-> TRUE]

\* fixSshConfig when the extension host is ended during its writeFileSync
fixSshConfigInterrupted ==
    /\ Len(fixLog) < MaxFixRuns
    /\ \E r \in {fixSshConfig(sshConfigFile)} :
          /\ r.wrote
          /\ \E partial \in InterruptedWrites(r.file.text) :
                /\ sshConfigFile' = File(r.file.kind, partial)
                /\ fixLog' = Append(fixLog, FixInterrupted("ssh", sshConfigFile, r, partial))
    /\ UNCHANGED <<flow, pc, checks, serverInfo, finalCheck, sshHost, remoteSSH,
                   commands, connectCommand, invoked, shown, outcome, trace>>
    /\ UNCHANGED <<recordFile, listing, portOut, scriptFile, knownHosts,
                   extensions, envChanges>>
    /\ UNCHANGED callVars

\* fixArnConversion when the extension host is ended during its writeFileSync
fixArnConversionInterrupted ==
    /\ Len(fixLog) < MaxFixRuns
    /\ \E r \in {fixArnConversion(scriptFile)} :
          /\ r.wrote
          /\ \E partial \in InterruptedWrites(r.file.text) :
                /\ scriptFile' = File(r.file.kind, partial)
                /\ fixLog' = Append(fixLog, FixInterrupted("arn", scriptFile, r, partial))
    /\ UNCHANGED <<flow, pc, checks, serverInfo, finalCheck, sshHost, remoteSSH,
                   commands, connectCommand, invoked, shown, outcome, trace>>
    /\ UNCHANGED <<recordFile, listing, portOut, sshConfigFile, knownHosts,
                   extensions, envChanges>>
    /\ UNCHANGED callVars

---------------------------------------------------------------------------
(* Setup command and hostname conversion *)

SetupRun(before, spaceArn, r) ==
    [fix |-> "setup", result |-> r.result, before |-> before, after |-> r.file,
     backup |-> <<>>, wrote |-> r.wrote, arn |-> spaceArn]

\* the setup command reaching its SSH config step: await setupSSHConfig().
\* The step is skipped when checks.sshConfig holds, which is the test that
\* makes setupSSHConfig return without writing.
setupSSHConfigCommand ==
    /\ Len(fixLog) < MaxFixRuns
    /\ \E spaceArn \in ArnInputs \cup {NoArn} :
          \E r \in {setupSSHConfig(sshConfigFile, spaceArn)} :
             /\ sshConfigFile' = r.file
             /\ fixLog' = Append(fixLog, SetupRun(sshConfigFile, spaceArn, r))
    /\ UNCHANGED <<flow, pc, checks, serverInfo, finalCheck, sshHost, remoteSSH,
                   commands, connectCommand, invoked, shown, outcome, trace>>
    /\ UNCHANGED <<recordFile, listing, portOut, scriptFile, knownHosts,
                   extensions, envChanges>>
    /\ UNCHANGED callVars

\* setupSSHConfig up to `await vscode.window.showInputBox(...)`: the config is
\* read into configContent, kept in the log entry of the suspended call
setupReadConfig ==
    /\ flow = "setup"
    /\ pc = "start"
    /\ Len(fixLog) + 2 <= MaxFixRuns
    /\ LET configContent == IF existsSync(sshConfigFile) THEN sshConfigFile.text ELSE <<>>
           entry(result) == [fix |-> "setupRead", result |-> result,
                             before |-> sshConfigFile, after |-> sshConfigFile,
                             backup |-> <<>>, wrote |-> FALSE, arn |-> NoArn,
                             configContent |-> configContent]
       IN IF existsSync(sshConfigFile) /\ ~readSucceeds(sshConfigFile)
          THEN /\ fixLog' = Append(fixLog, entry("failed"))
               /\ Finish("SetupFailed", {}, <<>>)
          ELSE IF Includes(configContent, HostSagemaker)
          THEN /\ fixLog' = Append(fixLog, entry("alreadyPresent"))
               /\ Finish("AlreadyPresent", {}, <<>>)
          ELSE /\ fixLog' = Append(fixLog, entry("read"))
               /\ Goto("prompt")
    /\ UNCHANGED <<flow, checks, serverInfo, finalCheck, sshHost, remoteSSH,
                   commands, connectCommand, trace>>
    /\ UNCHANGED <<envVars, callVars>>

\* the prompt is answered: generateHostname, sshEntry, configContent += sshEntry,
\* fs.writeFileSync
setupAfterPrompt ==
    /\ flow = "setup"
    /\ pc = "prompt"
    /\ \E spaceArn \in ArnInputs \cup {NoArn} :
          \E r \in {setupSSHConfigResume(fixLog[Len(fixLog)].configContent,
                                         sshConfigFile, spaceArn)} :
             /\ sshConfigFile' = r.file
             /\ fixLog' = Append(fixLog, SetupRun(sshConfigFile, spaceArn, r))
             /\ Finish(IF r.wrote THEN "SetupDone" ELSE "SetupFailed", {}, <<>>)
    /\ UNCHANGED <<flow, checks, serverInfo, finalCheck, sshHost, remoteSSH,
                   commands, connectCommand, trace>>
    /\ UNCHANGED <<recordFile, listing, portOut, scriptFile, knownHosts,
                   extensions, envChanges>>
    /\ UNCHANGED callVars

\* one ARN is encoded as it is and after normalization
encodeArn ==
    /\ Len(fixLog) < MaxFixRuns
    /\ \E arn \in ArnInputs :
          fixLog' = Append(fixLog,
                           [fix |-> "encode", arn |-> arn,
                            hostname |-> generateHostname(arn),
                            normalized |-> normalizeToSpace(arn),
                            normalizedTwice |-> normalizeToSpace(normalizeToSpace(arn)),
                            hostnameOfNormalized |->
                                generateHostname(normalizeToSpace(arn))])
    /\ UNCHANGED <<flow, pc, checks, serverInfo, finalCheck, sshHost, remoteSSH,
                   commands, connectCommand, invoked, shown, outcome, trace>>
    /\ UNCHANGED <<envVars, callVars>>

---------------------------------------------------------------------------
(* Environment *)

\* the bridging server exits: its process leaves the listing and its port closes
serverStops ==
    /\ pc # "done"
    /\ envChanges < MaxEnvChanges
    /\ listing' = [ok |-> TRUE, rows |-> <<>>]
    /\ portOut' = [ok |-> TRUE, out |-> FalseText]
    /\ <<listing', portOut'>> # <<listing, portOut>>
    /\ envChanges' = envChanges + 1
    /\ UNCHANGED <<recordFile, scriptFile, sshConfigFile, knownHosts, extensions>>
    /\ UNCHANGED <<flowVars, callVars>>

\* the toolkit starts the bridging server: record, process and open port
serverStarts ==
    /\ pc # "done"
    /\ envChanges < MaxEnvChanges
    /\ recordFile' = [kind |-> "json", pid |-> 12, port |-> 80]
    /\ listing' = [ok |-> TRUE, rows |-> <<[image |-> <<"s", "v", "c">>, pid |-> 12]>>]
    /\ portOut' = [ok |-> TRUE, out |-> TrueText]
    /\ <<recordFile', listing', portOut'>> # <<recordFile, listing, portOut>>
    /\ envChanges' = envChanges + 1
    /\ UNCHANGED <<scriptFile, sshConfigFile, knownHosts, extensions>>
    /\ UNCHANGED <<flowVars, callVars>>

\* another program or the user appends a host block to the SSH config
otherWriterAppends ==
    /\ pc # "done"
    /\ envChanges < MaxEnvChanges
    /\ sshConfigFile.kind \in {"text", "absent"}
    /\ sshConfigFile' = File("text", sshConfigFile.text \o OtherWriterBlock)
    /\ envChanges' = envChanges + 1
    /\ UNCHANGED <<recordFile, listing, portOut, scriptFile, knownHosts, extensions>>
    /\ UNCHANGED <<flowVars, callVars>>

\* the toolkit deletes the server record file
recordRemoved ==
    /\ pc # "done"
    /\ envChanges < MaxEnvChanges
    /\ recordFile.kind # "absent"
    /\ recordFile' = [kind |-> "absent", pid |-> NoNum, port |-> NoNum]
    /\ envChanges' = envChanges + 1
    /\ UNCHANGED <<listing, portOut, scriptFile, sshConfigFile, knownHosts, extensions>>
    /\ UNCHANGED <<flowVars, callVars>>

---------------------------------------------------------------------------
(* Specification *)

\* the server environment: record file, process listing, port test
ServerEnvironment ==
    /\ recordFile \in RecordFiles
    /\ listing \in Listings
    /\ portOut \in PortOuts
    /\ envChanges = 0

\* nothing of the attempt has run yet
AttemptStart ==
    /\ pc = "start"
    /\ checks = NoChecks
    /\ serverInfo = NoStatus
    /\ finalCheck = NoStatus
    /\ sshHost = NoHost
    /\ remoteSSH = NoRemoteSSH
    /\ commands = {}
    /\ connectCommand = NoCommand
    /\ invoked = <<>>
    /\ shown = {}
    /\ outcome = "none"
    /\ trace = <<>>
    /\ fixLog = <<>>
    /\ hpc = "idle"
    /\ info = [kind |-> "json", pid |-> NoNum, port |-> NoNum]
    /\ processRunning = FALSE
    /\ hret = NoStatus
    /\ statusCalls = 0
    /\ probeLog = <<>>
    /\ readLog = <<>>
    /\ statusLog = <<>>

Init ==
    /\ ServerEnvironment
    /\ scriptFile \in {NoFile, File("text", ScriptFixed)}
    /\ sshConfigFile \in {NoFile, File("unreadable", <<>>), File("text", HostSagemaker)}
    /\ knownHosts = NoFile
    /\ extensions \in SUBSET {"cursor", "vscode"}
    /\ flow \in Flows
    /\ AttemptStart

Next ==
    \/ checkPrerequisites
    \/ quickFixArnConversion
    \/ quickPurgeHostKeys
    \/ firstHealthCheck
    \/ readServerInfo
    \/ processProbe
    \/ portProbe
    \/ statusReport
    \/ connectAfterFirstCheck
    \/ quickAfterFirstCheck
    \/ quickSettleDelay
    \/ finalVerification
    \/ afterFinalCheck
    \/ connectScriptCheck
    \/ connectDetectExtension
    \/ resolveVerb
    \/ connectInvoke
    \/ legacyInvoke
    \/ quickDelegate
    \/ quickFallback
    \/ serverStops
    \/ recordRemoved

Spec == Init /\ [][Next]_vars

\* the status command, run repeatedly while the server environment may change
InitHealth ==
    /\ ServerEnvironment
    /\ scriptFile = NoFile
    /\ sshConfigFile = File("text", HostSagemaker)
    /\ knownHosts = NoFile
    /\ extensions = {"cursor"}
    /\ flow = "status"
    /\ AttemptStart

NextHealth ==
    \/ checkPrerequisites
    \/ firstHealthCheck
    \/ readServerInfo
    \/ processProbe
    \/ portProbe
    \/ statusReport
    \/ statusAgain
    \/ serverStops
    \/ recordRemoved

SpecHealth == InitHealth /\ [][NextHealth]_vars

\* the prerequisite check of every entry point, over the SSH config files
\* and extension sets it can meet
SshConfigFiles ==
    {NoFile, File("unreadable", <<>>)}
    \cup {File("text", t) : t \in {HostSagemaker, ConfigPercentN, ConfigOtherHost}}

InitPrereq ==
    /\ recordFile = [kind |-> "absent", pid |-> NoNum, port |-> NoNum]
    /\ listing = [ok |-> TRUE, rows |-> <<>>]
    /\ portOut = [ok |-> TRUE, out |-> FalseText]
    /\ envChanges = 0
    /\ scriptFile = NoFile
    /\ sshConfigFile \in SshConfigFiles
    /\ knownHosts = NoFile
    /\ extensions \in SUBSET {"cursor", "vscode"}
    /\ flow \in Flows
    /\ AttemptStart

NextPrereq == checkPrerequisites

SpecPrereq == InitPrereq /\ [][NextPrereq]_vars

\* connect and quick start against a server that is healthy when they begin
HealthyServer ==
    /\ recordFile = [kind |-> "json", pid |-> 12, port |-> 80]
    /\ listing = [ok |-> TRUE, rows |-> <<[image |-> <<"s", "v", "c">>, pid |-> 12]>>]
    /\ portOut = [ok |-> TRUE, out |-> TrueText]
    /\ envChanges = 0

InitWorkflow ==
    /\ HealthyServer
    /\ scriptFile \in {NoFile, File("text", ScriptFixed), File("text", ScriptPlain)}
    /\ sshConfigFile = File("text", HostSagemaker)
    /\ knownHosts \in {NoFile, File("text", HostsWithStale)}
    /\ extensions \in SUBSET {"cursor", "vscode"}
    /\ flow \in ConnectFlows \cup {"quick"}
    /\ AttemptStart

NextWorkflow ==
    \/ checkPrerequisites
    \/ quickFixArnConversion
    \/ quickPurgeHostKeys
    \/ firstHealthCheck
    \/ readServerInfo
    \/ processProbe
    \/ portProbe
    \/ connectAfterFirstCheck
    \/ quickAfterFirstCheck
    \/ quickSettleDelay
    \/ finalVerification
    \/ afterFinalCheck
    \/ connectScriptCheck
    \/ connectDetectExtension
    \/ resolveVerb
    \/ connectInvoke
    \/ legacyInvoke
    \/ quickDelegate
    \/ quickFallback
    \/ serverStops
    \/ recordRemoved

SpecWorkflow == InitWorkflow /\ [][NextWorkflow]_vars

\* quick start over every kind of connection script and known_hosts file
ScriptFiles ==
    {NoFile, File("unreadable", <<>>), File("text", ScriptPlain),
     File("readonly", ScriptPlain), File("lockedDir", ScriptPlain),
     File("text", ScriptOtherFormat), File("text", ScriptFixed)}

KnownHostsFiles ==
    {NoFile, File("unreadable", <<>>), File("text", HostsWithStale),
     File("readonly", HostsWithStale), File("text", HostsClean)}

InitQuick ==
    /\ HealthyServer
    /\ scriptFile \in ScriptFiles
    /\ sshConfigFile = File("text", HostSagemaker)
    /\ knownHosts \in KnownHostsFiles
    /\ extensions = {"cursor"}
    /\ flow = "quick"
    /\ AttemptStart

NextQuick ==
    \/ checkPrerequisites
    \/ quickFixArnConversion
    \/ quickPurgeHostKeys
    \/ firstHealthCheck
    \/ readServerInfo
    \/ processProbe
    \/ portProbe
    \/ quickAfterFirstCheck
    \/ quickSettleDelay
    \/ finalVerification
    \/ afterFinalCheck
    \/ quickDelegate
    \/ quickFallback
    \/ serverStops
    \/ recordRemoved

\* quickStart is one async function: each step up to the first health check is
\* synchronous file work or the continuation of a promise that settles, so a
\* step that is waiting to run does run
SpecQuick ==
    /\ InitQuick
    /\ [][NextQuick]_vars
    /\ WF_vars(checkPrerequisites)
    /\ WF_vars(quickFixArnConversion)
    /\ WF_vars(quickPurgeHostKeys)
    /\ WF_vars(firstHealthCheck)

\* the two fix commands, run in any order on every kind of file
SshConfigSamples ==
    {NoFile, File("unreadable", <<>>), File("text", HostSagemaker),
     File("text", ConfigPercentN), File("readonly", ConfigPercentN),
     File("lockedDir", ConfigPercentN),
     File("text", ConfigTwoBlocks), File("text", ConfigNoProxy),
     File("text", ConfigOtherHost), File("text", ConfigPrefixAlias),
     File("text", ConfigMixedCase), File("text", ConfigLowerKeyword),
     File("text", ConfigBothTokens), File("text", ConfigBetween)}

InitFix ==
    /\ HealthyServer
    /\ scriptFile \in ScriptFiles
    /\ sshConfigFile \in SshConfigSamples
    /\ knownHosts = NoFile
    /\ extensions = {"cursor"}
    /\ flow = "connect"
    /\ AttemptStart

NextFix ==
    \/ fixSshConfigCommand
    \/ fixArnConversionCommand
    \/ fixSshConfigInterrupted
    \/ fixArnConversionInterrupted
    \/ applyAllFixes

SpecFix == InitFix /\ [][NextFix]_vars

\* a config whose last line has no newline
ConfigNoFinalNewline ==
    <<"H", "o", "s", "t", " ", "o", "t", "h", "e", "r", "\n", " ", " ",
      "U", "s", "e", "r", " ", "u">>

\* the setup command run on every kind of SSH config
SetupConfigs ==
    {NoFile, File("unreadable", <<>>), File("readonly", ConfigOtherHost),
     File("text", <<>>), File("text", ConfigOtherHost),
     File("text", ConfigNoFinalNewline), File("text", ConfigPercentN),
     File("text", ConfigLowerKeyword)}

ParkedFiles ==
    /\ HealthyServer
    /\ scriptFile = NoFile
    /\ knownHosts = NoFile
    /\ extensions = {"cursor"}
    /\ flow = "connect"
    /\ AttemptStart

InitSetup == ParkedFiles /\ sshConfigFile \in SetupConfigs

NextSetup ==
    \/ setupSSHConfigCommand
    \/ fixSshConfigCommand

SpecSetup == InitSetup /\ [][NextSetup]_vars

\* the hostname conversion applied to every ARN
InitCodec == ParkedFiles /\ sshConfigFile = NoFile

NextCodec == encodeArn

SpecCodec == InitCodec /\ [][NextCodec]_vars

\* startLocalServer against a server that is running, stopped or never started
StartEnvironments ==
    \/ HealthyServer
    \/ /\ recordFile \in {[kind |-> "json", pid |-> 12, port |-> 80],
                         [kind |-> "absent", pid |-> NoNum, port |-> NoNum]}
       /\ listing = [ok |-> TRUE, rows |-> <<>>]
       /\ portOut = [ok |-> TRUE, out |-> FalseText]
       /\ envChanges = 0

InitStart ==
    /\ StartEnvironments
    /\ scriptFile = NoFile
    /\ sshConfigFile = File("text", HostSagemaker)
    /\ knownHosts = NoFile
    /\ extensions = {"cursor"}
    /\ flow = "start"
    /\ AttemptStart

NextStart ==
    \/ startFirstCheck
    \/ readServerInfo
    \/ processProbe
    \/ portProbe
    \/ startAfterFirstCheck
    \/ startTrigger
    \/ startSettleDelay
    \/ finalVerification
    \/ startAfterRecheck
    \/ serverStarts
    \/ serverStops

SpecStart == InitStart /\ [][NextStart]_vars

\* setup suspended at its prompt while another writer may change the config
InitSetupRace ==
    /\ HealthyServer
    /\ scriptFile = NoFile
    /\ sshConfigFile \in SetupConfigs
    /\ knownHosts = NoFile
    /\ extensions = {"cursor"}
    /\ flow = "setup"
    /\ AttemptStart

NextSetupRace ==
    \/ setupReadConfig
    \/ otherWriterAppends
    \/ setupAfterPrompt

SpecSetupRace == InitSetupRace /\ [][NextSetupRace]_vars

---------------------------------------------------------------------------
(* Properties *)

\* some Remote-SSH connect verb has been passed to executeCommand
ConnectInvoked == \E i \in 1..Len(invoked) : invoked[i].cmd \in ConnectVerbs

\* probes of the given kind executed by the given checkServerStatus call
ProbesOf(call, kind) ==
    {i \in 1..Len(probeLog) : probeLog[i].call = call /\ probeLog[i].kind = kind}

ProbeSucceeded(call, kind) == \E i \in ProbesOf(call, kind) : probeLog[i].result

\* what the current checkServerStatus call read from the record file
CurrentRead == readLog[Len(readLog)][2]

\* the current checkServerStatus call has returned
Returned == hpc = "ret" /\ Len(readLog) = statusCalls

FinalCheckTaken == finalCheck.error # "unset"

\* C1: in connect and quick start, when the first health check reported the
\* server running and the final health check reported it not running or not
\* accessible, the attempt ends as ServerStoppedBetweenChecks and no
\* Remote-SSH connect command is invoked in that attempt.
C1_StoppedBetweenChecks ==
    (/\ flow \in ConnectFlows \cup {"quick"}
     /\ serverInfo.running
     /\ FinalCheckTaken
     /\ ~(finalCheck.running /\ finalCheck.accessible = "true"))
    => /\ pc = "done"
       /\ outcome = "ServerStoppedBetweenChecks"
       /\ MsgStopped \in shown
       /\ ~ConnectInvoked

C1_Witness ==
    /\ flow \in ConnectFlows \cup {"quick"}
    /\ serverInfo.running
    /\ FinalCheckTaken
    /\ ~finalCheck.running
    /\ outcome = "ServerStoppedBetweenChecks"

\* C2: a connect command is invoked only after two separate checkServerStatus
\* calls of the same attempt each returned running and accessible, and each
\* of the two results comes from its own process probe and port probe.
C2_ConnectAfterTwoFreshChecks ==
    ConnectInvoked =>
       /\ statusCalls = 2
       /\ serverInfo.running /\ serverInfo.accessible = "true"
       /\ finalCheck.running /\ finalCheck.accessible = "true"
       /\ \A call \in {1, 2} :
             /\ Cardinality(ProbesOf(call, "process")) = 1
             /\ Cardinality(ProbesOf(call, "port")) = 1
             /\ ProbeSucceeded(call, "process")
             /\ ProbeSucceeded(call, "port")

C2_Witness ==
    /\ ConnectInvoked
    /\ envChanges > 0
    /\ pc = "done"

\* C3: whenever the connect workflow has resolved a verb it invokes exactly
\* that verb with the SSH host alias, and it reports "Initiating connection..."
\* only in attempts in which a connect command was invoked.
C3_ResolvedVerbInvoked ==
    (flow \in ConnectFlows /\ pc = "done")
    => /\ connectCommand # NoCommand
          => \E i \in 1..Len(invoked) : invoked[i] = Call(connectCommand, sshHost)
       /\ MsgInitiating \in shown => ConnectInvoked

SpecStageOrder ==
    <<"PrereqChecked", "ServerChecked", "ScriptChecked", "FinalVerified", "Delegated">>

\* C4: an attempt that delegates passed its stages in the order prerequisite
\* check, first health check, script check, final health check, delegation,
\* with nothing between the final health check and the delegation.
C4_StageOrder ==
    (flow \in ConnectFlows /\ trace # <<>> /\ trace[Len(trace)] = "Delegated")
    => trace = SpecStageOrder

\* C5: a checkServerStatus call returns running = true only if in that call
\* the record had a pid and a port, the process probe for that pid succeeded
\* and the port probe for that port succeeded.
C5_RunningNeedsBothProbes ==
    (Returned /\ hret.running)
    => /\ CurrentRead.kind = "json"
       /\ CurrentRead.pid # NoNum /\ CurrentRead.port # NoNum
       /\ \E i \in ProbesOf(statusCalls, "process") :
             probeLog[i].result /\ probeLog[i].arg = CurrentRead.pid
       /\ \E i \in ProbesOf(statusCalls, "port") :
             probeLog[i].result /\ probeLog[i].arg = CurrentRead.port

C5_Witness ==
    /\ Returned
    /\ hret.running
    /\ statusCalls = 2

\* C6: with the record file absent the call returns running = false and the
\* error "Server info file not found"; with an unparsable file it returns
\* running = false and some error; in both cases no probe is executed.
C6_NoRecordShortCircuits ==
    (Returned /\ CurrentRead.kind # "json")
    => /\ ~hret.running
       /\ hret.error \notin {NoError, "unset"}
       /\ CurrentRead.kind = "absent" => hret.error = ErrNotFound
       /\ ProbesOf(statusCalls, "process") = {}
       /\ ProbesOf(statusCalls, "port") = {}

C6_Witness ==
    /\ Returned
    /\ CurrentRead.kind = "absent"
    /\ hret.error = ErrNotFound

C6_WitnessUnparsable ==
    /\ Returned
    /\ CurrentRead.kind = "garbled"
    /\ ~hret.running

\* C7: for a readable record the error is "Process not running" whenever the
\* process probe did not succeed, "Server not accessible on port" when the
\* process probe succeeded and the port probe did not, and there is no error
\* exactly when running = true.
C7_ErrorAttribution ==
    (Returned /\ CurrentRead.kind = "json")
    => /\ ~ProbeSucceeded(statusCalls, "process") => hret.error = ErrProcess
       /\ (ProbeSucceeded(statusCalls, "process") /\ ~ProbeSucceeded(statusCalls, "port"))
             => hret.error = ErrPort
       /\ hret.error = NoError <=> hret.running

C7_Witness ==
    /\ Returned
    /\ CurrentRead.kind = "json"
    /\ ~ProbeSucceeded(statusCalls, "process")
    /\ ProbeSucceeded(statusCalls, "port")
    /\ hret.error = ErrProcess

\* C8 as stated: for every readable record the port probe is executed, also
\* after a failed process probe, and accessible equals its result.
C8_PortProbeAlways ==
    (Returned /\ CurrentRead.kind = "json")
    => \E i \in ProbesOf(statusCalls, "port") :
          hret.accessible = BoolStr(probeLog[i].result)

\* C8: for a readable record that has a port, the port probe is executed,
\* also after a failed process probe, and accessible equals its result, also
\* when running = false; for a readable record without a port no port probe
\* is executed and accessible is false.
C8_AccessibleMirrorsPortProbe ==
    (Returned /\ CurrentRead.kind = "json")
    => IF CurrentRead.port # NoNum
       THEN /\ Cardinality(ProbesOf(statusCalls, "port")) = 1
            /\ \A i \in ProbesOf(statusCalls, "port") :
                  /\ probeLog[i].arg = CurrentRead.port
                  /\ hret.accessible = BoolStr(probeLog[i].result)
       ELSE /\ ProbesOf(statusCalls, "port") = {}
            /\ hret.accessible = "false"

C8_Witness ==
    /\ Returned
    /\ CurrentRead.kind = "json"
    /\ ~ProbeSucceeded(statusCalls, "process")
    /\ ProbeSucceeded(statusCalls, "port")
    /\ ~hret.running
    /\ hret.accessible = "true"

\* C9: the connect workflow ends as ServerNotRunning when the first health
\* check found the process dead or the record missing, and as
\* ServerUnreachable when it found the process alive but the port not
\* reachable.
C9_DistinctLivenessOutcomes ==
    (flow \in ConnectFlows /\ pc = "done" /\ statusCalls = 1)
    => /\ (serverInfo.error = ErrNotFound \/ ~ProbeSucceeded(1, "process"))
             => outcome = "ServerNotRunning"
       /\ (/\ ProbeSucceeded(1, "process")
           /\ \E i \in ProbesOf(1, "port") : ~probeLog[i].result)
             => outcome = "ServerUnreachable"

\* a row of the listing carries exactly this process id
ExactPidRow(pid, lst) ==
    lst.ok /\ \E i \in 1..Len(lst.rows) : lst.rows[i].pid = pid

\* C10: the process probe reports alive only if the listing it saw contains
\* an entry whose process id is exactly the recorded pid.
C10_ExactPidMatch ==
    \A i \in 1..Len(probeLog) :
        (probeLog[i].kind = "process" /\ probeLog[i].result)
        => ExactPidRow(probeLog[i].arg, probeLog[i].saw)

\* C11: two checkServerStatus calls with no change of the record file, the
\* process table or the port reachability from the start of the earlier call
\* to the return of the later one return identical results.
C11_SameStateSameResult ==
    \A i \in 1..Len(statusLog), j \in 1..Len(statusLog) :
        (/\ i < j
         /\ statusLog[i].returned /\ statusLog[j].returned
         /\ statusLog[i].from = statusLog[j].to)
        => statusLog[i].result = statusLog[j].result

C11_Witness ==
    /\ Len(statusLog) = 2
    /\ statusLog[1].returned /\ statusLog[2].returned
    /\ statusLog[1].from = statusLog[2].to
    /\ statusLog[1].result.running
    /\ statusLog[2].result.running

\* checkAll has returned its result to the workflow
PrereqReturned == pc # "start" /\ outcome # "CheckRaised"

\* C12: in every result of checkAll, allPassed is true exactly when awsCli,
\* sessionManagerPlugin, remoteSSH and sshConfig are all true, each of these
\* being the fact found in that call; awsToolkit has no part in it.
C12_AllPassedDerived ==
    PrereqReturned
    => /\ checks.allPassed <=> (/\ checks.awsCli /\ checks.sessionManagerPlugin
                                 /\ checks.remoteSSH /\ checks.sshConfig)
       /\ checks.remoteSSH <=> checkRemoteSSHExtension(extensions).type # "none"
       /\ checks.sshConfig <=> checkSSHConfig(sshConfigFile)

C12_Witness ==
    /\ PrereqReturned
    /\ checks.allPassed
    /\ ~checks.awsToolkit

\* C13: checkAll never raises: once the prerequisite step is over the workflow
\* holds a result of checkAll, whatever read or probe failed during the check.
C13_ChecksNeverRaise ==
    pc # "start" => (outcome # "CheckRaised" /\ "PrereqChecked" \in {trace[i] : i \in 1..Len(trace)})

\* C14: whenever checkAll returns allPassed = false its errors list is not
\* empty, so the "Prerequisites not met" abort names what is missing.
C14_AbortNamesMissing ==
    (PrereqReturned /\ ~checks.allPassed) => checks.errors # <<>>

\* the resolver has chosen connectCommand from the registered commands
VerbResolved == \E i \in 1..Len(trace) : trace[i] = "VerbResolved"

PreferenceOf(type) == IF type = "cursor" THEN CursorPreference ELSE VSCodePreference

\* C15: the resolved verb is the first verb of the variant's preference list
\* that is registered, it is none exactly when no verb of the list is
\* registered, and it is always a registered identifier or none.
C15_FirstRegisteredVerb ==
    VerbResolved
    => LET prefs == PreferenceOf(remoteSSH.type) IN
       /\ connectCommand = NoCommand <=> \A i \in 1..Len(prefs) : prefs[i] \notin commands
       /\ connectCommand # NoCommand
             => /\ connectCommand \in commands
                /\ \E i \in 1..Len(prefs) :
                      /\ prefs[i] = connectCommand
                      /\ \A j \in 1..(i - 1) : prefs[j] \notin commands

C15_Witness ==
    /\ VerbResolved
    /\ remoteSSH.type = "vscode"
    /\ connectCommand = "remote.SSH.connect"
    /\ "remote-ssh.connectToHost" \in commands

CursorSpecificVerbs == {"opensshremotes.connectToHost", "opensshremotes.connect"}
GenericVerbs == {"remote-ssh.connectToHost", "remote-ssh.connect"}

BothKindsRegistered ==
    /\ VerbResolved
    /\ remoteSSH.type = "cursor"
    /\ commands \cap CursorSpecificVerbs # {}
    /\ commands \cap GenericVerbs # {}

\* C16 as stated: for the Cursor variant, when a variant-specific verb and a
\* generic verb are both registered, the resolver returns the variant-specific one.
C16_SpecificBeforeGeneric ==
    BothKindsRegistered => connectCommand \in CursorSpecificVerbs

\* C16: for the Cursor variant the generic remote-ssh verbs come before the
\* opensshremotes verbs: when both kinds are registered the resolver returns
\* remote-ssh.connectToHost if it is registered and remote-ssh.connect otherwise.
C16_GenericBeforeSpecific ==
    BothKindsRegistered
    => connectCommand = (IF "remote-ssh.connectToHost" \in commands
                         THEN "remote-ssh.connectToHost" ELSE "remote-ssh.connect")

C16_Witness ==
    /\ BothKindsRegistered
    /\ connectCommand = "remote-ssh.connect"
    /\ "opensshremotes.connectToHost" \in commands

\* C17: when no connect verb is resolvable the connect workflow shows, for
\* either host variant, the manual instruction (Remote-SSH: Connect to Host,
\* then the host alias).
C17_ManualFallbackForBothVariants ==
    (flow \in ConnectFlows /\ outcome = "NoCapabilityResolved") => MsgManual \in shown

ConnectCalls == {i \in 1..Len(invoked) : invoked[i].cmd \in ConnectVerbs}

\* C18: every connect verb a workflow invokes was found registered by the
\* resolver beforehand, and a workflow invokes at most one connect verb.
C18_ResolvedThenSingleCall ==
    /\ \A i \in ConnectCalls : invoked[i].cmd \in commands /\ invoked[i].cmd = connectCommand
    /\ Cardinality(ConnectCalls) <= 1

QuickPrerequisitesPassed == flow = "quick" /\ PrereqReturned /\ checks.allPassed

QuickPreStepsDone ==
    /\ Len(fixLog) = 2
    /\ fixLog[1].fix = "arn"
    /\ fixLog[2].fix = "purge"
    /\ Len(trace) >= 3
    /\ SubSeq(trace, 1, 3) = <<"PrereqChecked", "ArnFixAttempted", "HostKeysPurged">>

\* C19: once the prerequisites pass, quick start always reaches the first
\* health check, it has by then attempted the ARN fix and after it the
\* known_hosts purge, and it never ends before that check whatever the two
\* pre-steps reported.
C19_PreStepsThenHealthCheck ==
    /\ [](QuickPrerequisitesPassed
           => /\ statusCalls >= 1 => QuickPreStepsDone
              /\ pc = "done" => statusCalls >= 1)
    /\ (QuickPrerequisitesPassed ~> statusCalls >= 1)

C19_Witness ==
    /\ QuickPrerequisitesPassed
    /\ statusCalls >= 1
    /\ QuickPreStepsDone
    /\ fixLog[1].result = "failed"
    /\ fixLog[2].result = "failed"

\* run i of a fix command repeats the same fix on the file the previous run
\* left, and that file has the section or line the fix is about to work on
SecondRunOfFix(i) ==
    /\ fixLog[i].fix = fixLog[i - 1].fix
    /\ fixLog[i].fix \in {"ssh", "arn"}
    /\ fixLog[i - 1].before.kind = "text"
    /\ fixLog[i - 1].result # "interrupted"
    /\ fixLog[i].result \notin {"missingHost", "noEntry", "interrupted"}

\* C20: a second consecutive run of fixSshConfig or of fixArnConversion leaves
\* the file unchanged, reports that the fix is already applied, writes nothing
\* and creates no backup, whatever the content of the file.
C20_FixesIdempotent ==
    \A i \in 2..Len(fixLog) :
        SecondRunOfFix(i)
        => /\ fixLog[i].after = fixLog[i].before
           /\ fixLog[i].result \in {"alreadyCorrect", "alreadyApplied"}
           /\ ~fixLog[i].wrote
           /\ fixLog[i].backup = <<>>

FixRuns == {i \in 1..Len(fixLog) : fixLog[i].fix \in {"ssh", "arn"}}

\* C21: a run of fixSshConfig or fixArnConversion that rewrites its file has
\* first copied the unmodified file to a backup, and a run whose backup cannot
\* be created writes nothing.
C21_BackupBeforeRewrite ==
    \A i \in FixRuns :
        /\ (fixLog[i].wrote \/ fixLog[i].after # fixLog[i].before)
              => fixLog[i].backup = <<fixLog[i].before.text>>
        /\ ~backupSucceeds(fixLog[i].before)
              => ~fixLog[i].wrote /\ fixLog[i].after = fixLog[i].before

C21_Witness ==
    /\ \E i \in FixRuns :
          /\ fixLog[i].fix = "ssh"
          /\ fixLog[i].wrote
          /\ fixLog[i].after # fixLog[i].before
          /\ fixLog[i].backup = <<fixLog[i].before.text>>
    /\ \E i \in FixRuns :
          /\ fixLog[i].fix = "arn"
          /\ ~backupSucceeds(fixLog[i].before)
          /\ fixLog[i].result = "failed"

\* C22: every run that rewrites a user file, the known_hosts purge of quick
\* start included, has first copied the unmodified file to a backup.
C22_EveryRewriteBackedUp ==
    \A i \in 1..Len(fixLog) :
        fixLog[i].wrote => fixLog[i].backup = <<fixLog[i].before.text>>

\* the lines of a config text, and those that open a host block: the keyword
\* Host in any letter case, then a space
IsHostLine(line) ==
    LET t == ToLower(TrimStart(line))
    IN Len(t) >= Len(HostPrefix) /\ SubSeq(t, 1, Len(HostPrefix)) = ToLower(HostPrefix)

AliasOf(line) ==
    LET t == TrimStart(line) IN Trim(SubSeq(t, Len(HostPrefix) + 1, Len(t)))

HostLines(lines) == {i \in 1..Len(lines) : IsHostLine(lines[i])}

\* the k-th host block of the lines: from its Host line up to the next one
HostBlock(lines, k) ==
    LET starts == HostLines(lines)
        from == CHOOSE i \in starts : Cardinality({j \in starts : j < i}) = k - 1
        later == {j \in starts : j > from}
        to == IF later = {} THEN Len(lines)
              ELSE (CHOOSE j \in later : \A h \in later : j <= h) - 1
    IN SubSeq(lines, from, to)

Preamble(lines) ==
    LET starts == HostLines(lines)
    IN IF starts = {} THEN lines
       ELSE SubSeq(lines, 1, (CHOOSE j \in starts : \A h \in starts : j <= h) - 1)

TargetAlias == <<"s", "a", "g", "e", "m", "a", "k", "e", "r">>

\* what fixSshConfig is about inside the target block: the proxy invocation
\* and the %n placeholder
FixConcerns(line) == Includes(line, ProxyCommandWord) \/ Includes(line, PercentN)

OnlyTargetBlockChanged(before, after) ==
    LET b == Split(before, "\n")
        a == Split(after, "\n")
        n == Cardinality(HostLines(b))
    IN /\ Cardinality(HostLines(a)) = n
       /\ Preamble(a) = Preamble(b)
       /\ \A k \in 1..n :
             LET bb == HostBlock(b, k)
                 ab == HostBlock(a, k)
             IN IF AliasOf(bb[1]) # TargetAlias THEN ab = bb
                ELSE /\ Len(ab) = Len(bb)
                     /\ \A i \in 1..Len(bb) : ~FixConcerns(bb[i]) => ab[i] = bb[i]

SshRewrites == {i \in 1..Len(fixLog) : fixLog[i].fix = "ssh" /\ fixLog[i].result = "fixed"}

\* C23: a rewrite by fixSshConfig leaves every host block other than the block
\* of alias sagemaker, the order of the blocks, and every line of the target
\* block that has neither the proxy invocation nor %n exactly as they were.
C23_OnlyTargetBlockChanged ==
    \A i \in SshRewrites :
        OnlyTargetBlockChanged(fixLog[i].before.text, fixLog[i].after.text)

\* the content a run of a fix writes when it runs to its end
RepairedText(fix, before) ==
    IF fix = "ssh" THEN fixSshConfig(before).file.text
    ELSE fixArnConversion(before).file.text

\* C24: whenever a repair ends, whether it ran to its end or was interrupted,
\* the target file holds its complete original content or its complete
\* repaired content.
C24_OriginalOrRepaired ==
    \A i \in FixRuns :
        fixLog[i].after.text \in {fixLog[i].before.text,
                                  RepairedText(fixLog[i].fix, fixLog[i].before)}

SetupRuns == {i \in 1..Len(fixLog) : fixLog[i].fix = "setup"}

\* the Host lines of a config that open a block of alias sagemaker
AliasBlocks(text) ==
    LET lines == Split(text, "\n")
    IN {i \in HostLines(lines) : AliasOf(lines[i]) = TargetAlias}

StartsOwnLine(text, pos) == pos = 1 \/ text[pos - 1] = "\n"

\* C25: setup leaves a config with a block of alias sagemaker as it is;
\* otherwise it appends one block after the unchanged existing content, the
\* appended Host line starts on a line of its own, and a config with at most
\* one block of the alias never gets a second one.
C25_SetupAppendsOneBlock ==
    \A i \in SetupRuns :
        LET b == fixLog[i].before.text
            a == fixLog[i].after.text
        IN /\ AliasBlocks(b) # {} => ~fixLog[i].wrote /\ a = b
           /\ fixLog[i].wrote =>
                 /\ Len(a) > Len(b)
                 /\ SubSeq(a, 1, Len(b)) = b
                 /\ StartsOwnLine(a, Len(b) + 1)
                 /\ Cardinality(AliasBlocks(a)) = 1

EncodeRuns == {i \in 1..Len(fixLog) : fixLog[i].fix = "encode"}

StructuralSeparator == <<"_", ".", "_">>

\* the token of the documented grammar for the fields of a space ARN
GrammarToken(r, a, dm, sp) ==
    HostnamePrefix \o r \o StructuralSeparator \o a \o StructuralSeparator
    \o <<"s", "p", "a", "c", "e">> \o DomainSpaceJoin \o dm \o DomainSpaceJoin \o sp

\* C26: for every space ARN generateHostname returns the token of the grammar
\* sm_lc_arn_._aws_._sagemaker_._{r}_._{a}_._space__{d}__{s}, region and account
\* joined by _._ like every other pair of fields.
C26_HostnameGrammar ==
    \A i \in EncodeRuns :
        \A r \in ArnRegions, a \in ArnAccounts, dm \in ArnDomains, sp \in ArnSpaces :
            fixLog[i].arn = SpaceArn(r, a, dm, sp)
                => fixLog[i].hostname = Converted(GrammarToken(r, a, dm, sp))

ExampleAppArn ==
    AppArn(ExampleRegion, ExampleAccount, ExampleDomain, ExampleSpace, ExampleAppTail)

ExampleSpaceArn == SpaceArn(ExampleRegion, ExampleAccount, ExampleDomain, ExampleSpace)

C28_MalformedArnNeverWritten ==
    \A i \in SetupRuns :
        /\ fixLog[i].arn \in MalformedArns =>
              ~fixLog[i].wrote /\ fixLog[i].after = fixLog[i].before
        /\ fixLog[i].wrote => ~Includes(fixLog[i].after.text, UndefinedText)

\* the lines of the first block of alias sagemaker
TargetBlock(text) ==
    LET lines == Split(text, "\n")
        starts == HostLines(lines)
        from == CHOOSE i \in AliasBlocks(text) : \A j \in AliasBlocks(text) : i <= j
        later == {j \in starts : j > from}
        to == IF later = {} THEN Len(lines)
              ELSE (CHOOSE j \in later : \A h \in later : j <= h) - 1
    IN SubSeq(lines, from, to)

ProxyLines(block) == {i \in 1..Len(block) : Includes(block[i], ProxyCommandWord)}

SshCompleted ==
    {i \in 1..Len(fixLog) : /\ fixLog[i].fix = "ssh"
                            /\ fixLog[i].result \in {"fixed", "alreadyCorrect"}}

\* C29: after fixSshConfig completes on a config whose block of alias
\* sagemaker has a proxy invocation, that invocation uses %h and no line of
\* the block has %n.
C29_ProxyUsesSessionToken ==
    \A i \in SshCompleted :
        (AliasBlocks(fixLog[i].before.text) # {}
         /\ ProxyLines(TargetBlock(fixLog[i].before.text)) # {})
        => LET block == TargetBlock(fixLog[i].after.text)
           IN /\ \A p \in ProxyLines(block) : Includes(block[p], PercentH)
              /\ \A k \in 1..Len(block) : ~Includes(block[k], PercentN)

\* the alias on the Host line of the section fixSshConfig extracts
ExtractedAlias(text) ==
    AliasOf(Split(MatchText(text, hostSectionMatch(text)), "\n")[1])

\* C30: a config with a block of alias sagemaker, however its Host keyword is
\* cased, passes the prerequisite check and is not reported by the fix as
\* lacking the host, and the section the fix rewrites is a block whose alias
\* is exactly sagemaker.
C30_KeywordAnyCaseAliasExact ==
    \A i \in 1..Len(fixLog) :
        fixLog[i].fix = "ssh" =>
            /\ (readSucceeds(fixLog[i].before)
                 /\ AliasBlocks(fixLog[i].before.text) # {})
               => /\ checkSSHConfig(fixLog[i].before)
                  /\ fixLog[i].result \notin {"missingHost", "noEntry"}
            /\ fixLog[i].result = "fixed"
               => ExtractedAlias(fixLog[i].before.text) = TargetAlias

\* the runs of a fix that applied it or found it already satisfied
FixSatisfied(run) ==
    \/ run.fix = "arn" /\ run.result \in {"applied", "alreadyApplied"}
    \/ run.fix = "ssh" /\ run.result \in {"fixed", "alreadyCorrect"}
    \/ run.fix \notin {"arn", "ssh"}

\* C31: 'All fixes applied' and 'ARN conversion verified/fixed' are reported
\* only in runs whose fixes were applied or were already satisfied; a fix that
\* found no script, no insertion point or could not write is not reported so.
C31_FixFailureSurfaced ==
    (MsgAllFixesApplied \in shown \/ MsgArnVerified \in shown)
        => \A i \in 1..Len(fixLog) : FixSatisfied(fixLog[i])

ToolkitCalls == {i \in 1..Len(invoked) : invoked[i].cmd \in AwsCommandSet}

StartEnded == flow = "start" /\ pc = "done"

AliasText(h) ==
    IF h = "sagemaker" THEN TargetAlias ELSE <<"d", "e", "v", "b", "o", "x">>

\* the SSH config has a host block whose alias is h
HasBlockFor(text, h) ==
    LET lines == Split(text, "\n")
    IN \E i \in HostLines(lines) : AliasOf(lines[i]) = AliasText(h)

\* C33: when the prerequisite check has passed and the workflow has read the
\* configured alias, the SSH config has a host block for that alias, so a
\* connect command is never invoked with an alias that has no block.
C33_DelegatedAliasHasBlock ==
    /\ (checks.allPassed /\ sshHost \in Aliases)
          => HasBlockFor(sshConfigFile.text, sshHost)
    /\ \A i \in ConnectCalls :
          invoked[i].arg \in Aliases => HasBlockFor(sshConfigFile.text, invoked[i].arg)

\* what an attempt ends in: its outcome and the connect verbs it invoked
EndOf(results) ==
    {[outcome |-> r.outcome,
      verbs |-> SelectSeq(r.calls, LAMBDA c : c.cmd \in ConnectVerbs)] : r \in results}

\* C34: for the same resolved verb, host variant and alias, the invoke step of
\* ConnectionManager and the one of extension.ts can end in the same outcomes
\* with the same verb and argument invoked.
C34_OneConnectBehaviour ==
    (flow \in ConnectFlows /\ pc = "invoke")
        => EndOf(connectInvokeResults(connectCommand, remoteSSH.type, sshHost))
           = EndOf(legacyInvokeResults(connectCommand, remoteSSH.type, sshHost))

\* C35: once checkAll has reported allPassed = false, the connect or quick
\* start attempt has ended as PrerequisiteMissing with no health check made,
\* no file fix or purge run and no command invoked.
C35_AbortOnFailedPrerequisites ==
    (flow \in ConnectFlows \cup {"quick"} /\ PrereqReturned /\ ~checks.allPassed)
        => /\ pc = "done"
           /\ outcome = "PrerequisiteMissing"
           /\ statusCalls = 0
           /\ hpc = "idle"
           /\ fixLog = <<>>
           /\ invoked = <<>>

C35_Witness ==
    /\ flow = "quick"
    /\ PrereqReturned
    /\ ~checks.allPassed
    /\ outcome = "PrerequisiteMissing"
    /\ scriptFile = File("text", ScriptPlain)
    /\ knownHosts = File("text", HostsWithStale)

\* C36: quick start reports 'Quick Start Complete!' only in attempts in which
\* a connect command was invoked and returned without error.
C36_CompleteOnlyWhenDelegated ==
    (flow = "quick" /\ MsgQuickDone \in shown)
        => /\ outcome = "Delegated"
           /\ ConnectCalls # {}
           /\ MsgQuickFailed \notin shown

\* fixSshConfig run directly after a setup run that wrote a block
FixAfterSetup ==
    {i \in 2..Len(fixLog) : /\ fixLog[i].fix = "ssh"
                            /\ fixLog[i - 1].fix = "setup"
                            /\ fixLog[i - 1].wrote
                            /\ fixLog[i - 1].arn \in WellFormedSpaceArns}

\* C37: fixSshConfig run directly after setup wrote a block for a well-formed
\* space ARN finds nothing to fix, leaves the file as it is and creates no
\* backup.
C37_SetupBlockNeedsNoRepair ==
    \A i \in FixAfterSetup :
        /\ fixLog[i].result = "alreadyCorrect"
        /\ ~fixLog[i].wrote
        /\ fixLog[i].backup = <<>>
        /\ fixLog[i].after = fixLog[i].before

\* runs of a fix that ran to their end without an I/O error
FixEnded ==
    {i \in FixRuns : fixLog[i].result \notin {"failed", "interrupted"}}

\* C38: a run of fixArnConversion or fixSshConfig that ends with the content
\* of its target file as it was has created no backup.
C38_BackupOnlyWhenChanged ==
    \A i \in FixEnded :
        fixLog[i].after.text = fixLog[i].before.text
            => fixLog[i].backup = <<>> /\ ~fixLog[i].wrote

\* C39: what setup writes is the content the file has when it is written,
\* followed by the new block.
C39_SetupKeepsOtherWrites ==
    \A i \in SetupRuns :
        fixLog[i].wrote =>
            /\ Len(fixLog[i].after.text) > Len(fixLog[i].before.text)
            /\ SubSeq(fixLog[i].after.text, 1, Len(fixLog[i].before.text))
                  = fixLog[i].before.text

\* the number of places at which sub occurs in text
Occurrences(text, sub) ==
    Cardinality({i \in 1..(Len(text) - Len(sub) + 1) :
                    SubSeq(text, i, i + Len(sub) - 1) = sub})

AtMostOnceMore(before, after, sub) ==
    Occurrences(after, sub) <= IF Occurrences(before, sub) = 0 THEN 1
                               ELSE Occurrences(before, sub)

\* two invocations of the same fix command started together; neither has a
\* suspension point, so one runs to its end before the other begins
ConcurrentPair(i) ==
    /\ fixLog[i].fix = fixLog[i - 1].fix
    /\ fixLog[i].fix \in {"ssh", "arn"}
    /\ fixLog[i].result # "interrupted"
    /\ fixLog[i - 1].result # "interrupted"

\* C40: after two invocations of the same fix the file is what one invocation
\* leaves, with the ARN conversion block inserted at most once and the proxy
\* invocation wrapped at most once.
C40_ConcurrentFixesAsOne ==
    \A i \in 2..Len(fixLog) :
        ConcurrentPair(i)
        => /\ fixLog[i].after.text = fixLog[i - 1].after.text
           /\ AtMostOnceMore(fixLog[i - 1].before.text, fixLog[i].after.text, ArnFixMarker)
           /\ AtMostOnceMore(fixLog[i - 1].before.text, fixLog[i].after.text,
                             ServerFilePathVar)

C40_Witness ==
    \E i \in 2..Len(fixLog) :
        /\ ConcurrentPair(i)
        /\ fixLog[i].fix = "arn"
        /\ fixLog[i - 1].result = "applied"
        /\ fixLog[i - 1].after.text # fixLog[i - 1].before.text
        /\ fixLog[i].result = "alreadyApplied"

=============================================================================
